---------------------------- MODULE Spec2Model ----------------------------
(***************************************************************************)
(* State-machine model of ocp_utilities: the operator install / uninstall  *)
(* orchestration (operators.py), the Prometheus alert waits                *)
(* (monitoring.py) and the pull-secret merge (infra.py).                   *)
(*                                                                         *)
(* Strings the code takes apart (names, images, scrape intervals) are      *)
(* sequences of one-character strings; the empty sequence is Python's      *)
(* None / "" (both falsy).                                                 *)
(***************************************************************************)
EXTENDS Integers, Sequences, FiniteSets, TLC

VARIABLES
    store,      \* the remote object store (cluster API)
    secret,     \* the stored pull-secret: NoSecret or its encoded data
    pc,         \* position of the single calling thread
    stack,      \* continuations of the pending calls
    args,       \* arguments of the running entry point
    loc,        \* local variables of the running call
    err,        \* the exception that ended the call, "" if none
    hist,       \* ghost record: what the running call did and observed
    ncalls,     \* entry-point calls started so far
    prom,       \* the Prometheus object and the metrics endpoint it queries
    peer,       \* a second caller of create_update_secret, on its own thread
    classes     \* the resource classes synthesised by DynamicClassCreator

vars == <<store, secret, pc, stack, args, loc, err, hist, ncalls, prom, peer,
          classes>>

-----------------------------------------------------------------------------
(* Bounds and inputs                                                       *)

MaxCalls == 2

None == <<>>

NameA == <<"a">>
NameAB == <<"a", "b">>
NameT == <<"t">>

OperatorNames == {NameA, NameAB}
OperatorNamespaces == {None, NameA}
TargetNamespaceLists == {None, <<NameT>>, <<NameA, NameT>>}
SourceNames == {None, <<"s">>}
IndexImages == {None, <<"q", "/", "i", "/", "q">>}
BrewTokens == {None, <<"k">>}

TIMEOUT_5MIN == 5 * 60
TIMEOUT_10MIN == 10 * 60
TIMEOUT_30MIN == 30 * 60
InstallPlanSleep == 30
InstalledCsvTimeout == 30
InstalledCsvSleep == 1

\* the seconds between two reads of wait_for_status and of wait_deleted, whose
\* sleep the code leaves to the library: a grain coarse enough for a wait of
\* ten minutes to be a few polls
StatusSleep == 200

InstallTimeouts == {0, 2 * StatusSleep}
UninstallTimeouts == {0, 2 * StatusSleep}

-----------------------------------------------------------------------------
(* Python helpers                                                          *)

Truthy(s) == s # None

\* x or y
Or(x, y) == IF Truthy(x) THEN x ELSE y

\* s.startswith(p)
StartsWith(s, p) ==
    /\ Len(p) <= Len(s)
    /\ \A i \in 1..Len(p) : s[i] = p[i]

Key(name, namespace) == [name |-> name, ns |-> namespace]

\* OLM names the Operator record of a subscription <name>.<namespace>
OperatorRecordName(k) == k.name \o <<".">> \o k.ns

InstallPlanNameOf(k) == <<"i">> \o k.name
CsvNameOf(k) == <<"c">> \o k.name

\* f without the key k
Without(f, k) == [x \in (DOMAIN f) \ {k} |-> f[x]]

\* f with k bound to v
With(f, k, v) == [x \in (DOMAIN f) \cup {k} |-> IF x = k THEN v ELSE f[x]]


\* s[i..] (1-based), the empty sequence past the end
Drop(s, n) == SubSeq(s, n + 1, Len(s))

\* s.split("/")[0]
RECURSIVE SplitFirst(_, _)
SplitFirst(s, sep) ==
    IF s = <<>> \/ Head(s) = sep THEN <<>>
    ELSE <<Head(s)>> \o SplitFirst(Tail(s), sep)

\* s.replace(old, new): every non-overlapping occurrence, left to right; the
\* empty string occurs before every character and at the end
RECURSIVE Replace(_, _, _)
Replace(s, old, new) ==
    IF old = <<>>
    THEN new \o (IF s = <<>> THEN <<>>
                 ELSE <<Head(s)>> \o Replace(Tail(s), old, new))
    ELSE IF s = <<>> THEN <<>>
    ELSE IF StartsWith(s, old)
         THEN new \o Replace(Drop(s, Len(old)), old, new)
         ELSE <<Head(s)>> \o Replace(Tail(s), old, new)

\* s.lower() over the alphabet of the model
LowerChar(c) == CASE c = "A" -> "a" [] c = "B" -> "b" [] OTHER -> c
Lower(s) == [i \in 1..Len(s) |-> LowerChar(s[i])]

-----------------------------------------------------------------------------
(* The remote store                                                        *)

NoObj == "absent"

IcspResource == "imagecontentsourcepolicies"
\* "brew.registry.redhat.io"
BrewRegistry ==
    <<"b", "r", "e", "w", ".", "r", "e", "g", "i", "s", "t", "r", "y",
      ".", "r", "e", "d", "h", "a", "t", ".", "i", "o">>
\* "registry.redhat.io"
RedHatRegistry ==
    <<"r", "e", "g", "i", "s", "t", "r", "y", ".", "r", "e", "d", "h",
      "a", "t", ".", "i", "o">>
\* "openshift-marketplace"
MarketNamespace ==
    <<"o", "p", "e", "n", "s", "h", "i", "f", "t", "-", "m", "a", "r",
      "k", "e", "t", "p", "l", "a", "c", "e">>

\* ValidatingWebhookConfiguration sre-imagecontentpolicies-validation of a
\* managed cluster: webhooks -> rules -> resources
ManagedWebhooks == << << <<IcspResource>>, <<"pods">> >> >>

NoIcsp == [exists |-> FALSE, repositoryDigestMirrors |-> <<>>]
NoWebhookConfig == [exists |-> FALSE, webhooks |-> <<>>]

EmptyStore ==
    [ns |-> {}, og |-> {}, sub |-> <<>>, ip |-> <<>>, csv |-> <<>>, op |-> {},
     icsp |-> NoIcsp, vwc |-> NoWebhookConfig, cs |-> {}]

\* a cluster with a namespace "a" that no operator lives in
NamespaceStore == [EmptyStore EXCEPT !.ns = {NameA}, !.vwc = [exists |-> TRUE, webhooks |-> ManagedWebhooks]]

\* a cluster where operator "ab" was installed into namespace "a"
InstalledKey == Key(NameAB, NameA)
InstalledStore ==
    [EmptyStore EXCEPT
        !.ns = {NameA},
        !.og = {InstalledKey},
        !.sub = (InstalledKey :>
                    [installplan |-> InstallPlanNameOf(InstalledKey),
                     installedCSV |-> CsvNameOf(InstalledKey)]),
        !.ip = (Key(InstallPlanNameOf(InstalledKey), NameA) :> "Complete"),
        !.csv = (Key(CsvNameOf(InstalledKey), NameA) :> "Succeeded"),
        !.op = {OperatorRecordName(InstalledKey)},
        !.icsp = [exists |-> TRUE, repositoryDigestMirrors |->
                    << [source |-> <<"o">>, mirrors |-> <<BrewRegistry>>] >>]]

InitialStores == {EmptyStore, NamespaceStore, InstalledStore}

\* deleting a namespace removes everything that lives in it
DeleteNamespace(st, n) ==
    [st EXCEPT
        !.ns = @ \ {n},
        !.og = {k \in @ : k.ns # n},
        !.sub = [k \in {x \in DOMAIN @ : x.ns # n} |-> @[k]],
        !.ip = [k \in {x \in DOMAIN @ : x.ns # n} |-> @[k]],
        !.csv = [k \in {x \in DOMAIN @ : x.ns # n} |-> @[k]]]

-----------------------------------------------------------------------------
(* The calling thread                                                      *)

NoKey == Key(None, None)

\* the second caller of create_update_secret before it is started; at_read
\* and at_write record where the first caller was when the second read and
\* wrote the secret
NoPeer ==
    [pc |-> "idle", secret_data |-> <<>>, encoded |-> <<>>,
     at_read |-> "", at_write |-> ""]

\* no class synthesised yet. made: the classes synthesised, in order, each
\* named by the base class it was made for, the i-th being class object i;
\* created_classes: the dict of a DynamicClassCreator the program keeps;
\* returned: what each call returned
NoClasses == [made |-> <<>>, created_classes |-> <<>>, returned |-> <<>>]

InitLoc ==
    [subscription |-> NoKey,    \* the Subscription handle of the call
     nsi |-> 0,                 \* target namespaces already handled
     kind |-> "none",           \* the wait in progress
     D |-> 0, I |-> 0,          \* its wait_timeout and sleep
     elapsed |-> 0,             \* time since the wait's timer started
     probes |-> 0,              \* probe calls of the wait so far
     gap |-> 0,                 \* time between its last two probe calls
     sample |-> None,           \* the value of its last probe call
     sat |-> FALSE,             \* did that value satisfy the stopping condition
     firstSat |-> 0,            \* the first probe call whose value did, 0 if none
     ret |-> <<>>,              \* the list an alert wait returned
     target |-> NoKey,          \* wait_for_status / wait_deleted: the object
     tkind |-> "none",          \*   its kind ("ip", "csv")
     want |-> "",               \*   the status waited for
     install_plan |-> NoKey,    \* InstallPlan handle returned by the first wait
     csv_name |-> None,         \* installedCSV read from the subscription
     backup |-> NoWebhookConfig,\* ResourceEditor backup of the webhooks
     exc |-> "",                \* exception leaving the with block, if any
     logged |-> <<>>,           \* query_sampler: the sample in its error log
     collected |-> FALSE,       \* clean_up: the collect function was called
     cleanups |-> 0,            \*   calls of the base class's clean_up
     secret_data |-> <<>>,      \* create_update_secret: the auths to add
     encoded |-> <<>>,          \*   the merged data, encoded, to be written
     proc |-> [kind |-> "none", returncode |-> 0, stdout |-> "", stderr |-> ""],
                                \* run_command: what the command did
     ops |-> <<>>,              \* uninstall_operator: Operator records still to visit
     commands |-> <<>>,         \* run_ssh_commands: the list the loop goes over
     ran |-> <<>>,              \*   the run_cmd calls made, in order
     sessions |-> 0,            \*   sessions opened
     session_open |-> FALSE]    \*   the session is open

NoObs ==
    [ipref |-> None,        \* the install-plan reference read from the subscription
     ipKey |-> NoKey,       \* the InstallPlan whose status was read last
     ipStatus |-> "",       \*   and that status
     icsv |-> None,         \* the installedCSV name read from the subscription
     csvResolved |-> NoKey, \* the CSV get_csv_by_name found
     csvKey |-> NoKey,      \* the CSV whose status was read last
     csvStatus |-> "",      \*   and that status
     csvGone |-> NoKey]     \* the CSV wait_deleted saw absent

NoWait ==
    [kind |-> "none", outcome |-> "none", probes |-> 0, elapsed |-> 0,
     D |-> 0, I |-> 0, sat |-> FALSE]

InitHist ==
    [store0 |-> EmptyStore, \* the store and the pull-secret when the call began
     secret0 |-> <<>>,
     muts |-> {},       \* remote mutations the call performed
     trace |-> <<>>,    \* its steps, in order, repeats of one step collapsed
     obs |-> NoObs,     \* what its probes observed when they were satisfied
     logs |-> {},       \* messages logged at error level
     last |-> NoWait]   \* the last polling wait that ended

NoArgs == [op |-> "none"]

Idle == pc \in {"idle", "returned", "raised"}

Mut(verb, kind, key) == [verb |-> verb, kind |-> kind, key |-> key]

Step(h, tag) ==
    IF h.trace # <<>> /\ h.trace[Len(h.trace)] = tag THEN h
    ELSE [h EXCEPT !.trace = Append(@, tag)]

\* the current function returns: the caller continues, or the call is over
Finish(l, h) ==
    /\ IF stack = <<>>
       THEN pc' = "returned" /\ stack' = stack
       ELSE pc' = Head(stack) /\ stack' = Tail(stack)
    /\ loc' = l
    /\ hist' = h
    /\ err' = err

\* an exception no caller catches ends the call
Raise(e, l, h) ==
    /\ pc' = "raised"
    /\ stack' = <<>>
    /\ err' = e
    /\ loc' = l
    /\ hist' = h

Goto(label, l, h) ==
    /\ pc' = label
    /\ loc' = l
    /\ hist' = h
    /\ UNCHANGED <<stack, err>>

-----------------------------------------------------------------------------
(* TimeoutSampler: probe, let the caller look at the value, give up once   *)
(* the deadline has passed, otherwise sleep and probe again                *)

NewSampler(l, kind, timeout, sleep) ==
    [l EXCEPT !.kind = kind, !.D = timeout, !.I = sleep,
              !.elapsed = 0, !.probes = 0, !.gap = 0,
              !.sample = None, !.sat = FALSE, !.firstSat = 0]

\* one more probe call, made at l.elapsed
Probed(l, sample, sat) ==
    [l EXCEPT !.probes = @ + 1, !.sample = sample, !.sat = sat,
              !.firstSat = IF sat /\ @ = 0 THEN l.probes + 1 ELSE @]

\* SamplerExpired with the deadline itself still inside the wait
SamplerExpiredAfterDeadline(l) == l.elapsed > l.D

SamplerExpired(l) == l.elapsed >= l.D

SamplerSleep(l) == [l EXCEPT !.elapsed = @ + l.I, !.gap = l.I]

WaitEnded(h, l, outcome) ==
    [h EXCEPT !.last = [kind |-> l.kind, outcome |-> outcome,
                        probes |-> l.probes, elapsed |-> l.elapsed,
                        D |-> l.D, I |-> l.I, sat |-> l.sat]]

-----------------------------------------------------------------------------
(* DynamicClassCreator and cluster_resource (infra.py)                     *)

\* lines 217-271, DynamicClassCreator.__call__ of a creator whose
\* created_classes is cc: the class kept for base_class, or a new one
CreatorCall(cc, made, base_class) ==
    IF base_class \in DOMAIN cc
    THEN [class |-> cc[base_class], created_classes |-> cc, made |-> made]
    ELSE [class |-> Len(made) + 1,
          created_classes |-> With(cc, base_class, Len(made) + 1),
          made |-> Append(made, base_class)]

\* lines 304-305: creator = DynamicClassCreator(); creator(base_class)
ClusterResource(cl, base_class) ==
    LET r == CreatorCall(<<>>, cl.made, base_class)
    IN [cl EXCEPT
           !.made = r.made,
           !.returned = Append(@, [base |-> base_class, class |-> r.class,
                                   via |-> "cluster_resource"])]

-----------------------------------------------------------------------------
(* install_operator                                                        *)

\* operator_namespace = operator_namespace or name
OperatorNamespace == Or(args.operator_namespace, args.name)

\* f"iib-catalog-{name.lower()}"
CatalogSourceName(name) ==
    <<"i", "i", "b", "-", "c", "a", "t", "a", "l", "o", "g", "-">> \o Lower(name)

\* the inputs explored: an argument that the call never reads is left out
InstallInputs(src, img, tok) ==
    /\ ~Truthy(img) => ~Truthy(tok)
    /\ Truthy(img) /\ Truthy(tok) => ~Truthy(src)

\* install_operator is explored as the first call on each initial cluster
CallInstallOperator ==
    /\ pc = "idle"
    /\ \E n \in OperatorNames, src \in SourceNames, tns \in TargetNamespaceLists,
          t \in InstallTimeouts, ons \in OperatorNamespaces,
          img \in IndexImages, tok \in BrewTokens :
            /\ InstallInputs(src, img, tok)
            /\ args' = [op |-> "install_operator", name |-> n, source |-> src,
                     target_namespaces |-> tns, timeout |-> t,
                     operator_namespace |-> ons, iib_index_image |-> img,
                     brew_token |-> tok]
    /\ pc' = "io_check"
    /\ stack' = <<>>
    /\ loc' = InitLoc
    /\ hist' = [InitHist EXCEPT !.store0 = store, !.secret0 = secret.data]
    /\ err' = ""
    /\ ncalls' = ncalls + 1
    /\ UNCHANGED <<store, secret, prom, peer, classes>>

\* IoCheck without the brew_token check of lines 169-170
IoCheckNoTokenCheck ==
    /\ pc = "io_check"
    /\ IF Truthy(args.iib_index_image)
       THEN /\ pc' = "iib_begin"
            /\ stack' = <<"io_ns">>
            /\ UNCHANGED <<loc, hist, err>>
       ELSE IF ~Truthy(args.source)
            THEN Raise("ValueError", loc, hist)
            ELSE Goto("io_ns", loc, hist)
    /\ UNCHANGED <<store, secret, args, ncalls, prom, peer, classes>>

\* IoCheck without the source check of lines 178-180
IoCheckNoSourceCheck ==
    /\ pc = "io_check"
    /\ IF Truthy(args.iib_index_image)
       THEN IF ~Truthy(args.brew_token)
            THEN Raise("ValueError", loc, hist)
            ELSE /\ pc' = "iib_begin"
                 /\ stack' = <<"io_ns">>
                 /\ UNCHANGED <<loc, hist, err>>
       ELSE Goto("io_ns", loc, hist)
    /\ UNCHANGED <<store, secret, args, ncalls, prom, peer, classes>>

\* lines 165-180: the argument checks
IoCheck ==
    /\ pc = "io_check"
    /\ IF Truthy(args.iib_index_image)
       THEN IF ~Truthy(args.brew_token)
            THEN Raise("ValueError", loc, hist)
            ELSE /\ pc' = "iib_begin"
                 /\ stack' = <<"io_ns">>
                 /\ UNCHANGED <<loc, hist, err>>
       ELSE IF ~Truthy(args.source)
            THEN Raise("ValueError", loc, hist)
            ELSE Goto("io_ns", loc, hist)
    /\ UNCHANGED <<store, secret, args, ncalls, prom, peer, classes>>

\* IoNamespaces without the ns.exists tests of lines 186 and 193: every
\* namespace is deployed
IoNamespacesNoExistsCheck ==
    /\ pc = "io_ns"
    /\ LET tns == args.target_namespaces
           n == IF Truthy(tns) THEN tns[loc.nsi + 1] ELSE OperatorNamespace
           last == ~Truthy(tns) \/ loc.nsi + 1 = Len(tns)
           l == [loc EXCEPT !.nsi = @ + 1]
           h == Step(hist, "namespace")
       IN /\ store' = [store EXCEPT !.ns = @ \cup {n}]
          /\ Goto(IF last THEN "io_og" ELSE "io_ns", l,
                  [h EXCEPT !.muts = @ \cup {Mut("create", "ns", Key(n, None))}])
    /\ UNCHANGED <<secret, args, ncalls, prom, peer, classes>>

\* lines 182-194: one target namespace per step, or the operator namespace
IoNamespaces ==
    /\ pc = "io_ns"
    /\ LET tns == args.target_namespaces
           n == IF Truthy(tns) THEN tns[loc.nsi + 1] ELSE OperatorNamespace
           last == ~Truthy(tns) \/ loc.nsi + 1 = Len(tns)
           l == [loc EXCEPT !.nsi = @ + 1]
           h == Step(hist, "namespace")
       IN /\ IF n \in store.ns
             THEN /\ store' = store
                  /\ Goto(IF last THEN "io_og" ELSE "io_ns", l, h)
             ELSE /\ store' = [store EXCEPT !.ns = @ \cup {n}]
                  /\ Goto(IF last THEN "io_og" ELSE "io_ns", l,
                          [h EXCEPT !.muts = @ \cup {Mut("create", "ns", Key(n, None))}])
    /\ UNCHANGED <<secret, args, ncalls, prom, peer, classes>>

\* lines 196-201: OperatorGroup(...).deploy(wait=True)
IoOperatorGroup ==
    /\ pc = "io_og"
    /\ LET k == Key(args.name, OperatorNamespace)
           h == Step(hist, "operator_group")
       IN IF k.ns \notin store.ns
          THEN Raise("NotFoundError", loc, h) /\ store' = store
          ELSE IF k \in store.og
          THEN Raise("ConflictError", loc, h) /\ store' = store
          ELSE /\ store' = [store EXCEPT !.og = @ \cup {k}]
               /\ Goto("io_sub", loc,
                       [h EXCEPT !.muts = @ \cup {Mut("create", "og", k)}])
    /\ UNCHANGED <<secret, args, ncalls, prom, peer, classes>>

\* lines 203-217: the Subscription is deployed, then wait_for_operator_install
\* is called; its line 78 calls wait_for_install_plan_from_subscription
IoSubscription ==
    /\ pc = "io_sub"
    /\ LET k == Key(args.name, OperatorNamespace)
           h == Step(hist, "subscription")
       IN IF k.ns \notin store.ns
          THEN Raise("NotFoundError", loc, h) /\ store' = store
          ELSE IF k \in DOMAIN store.sub
          THEN Raise("ConflictError", loc, h) /\ store' = store
          ELSE /\ store' = [store EXCEPT
                    !.sub = With(@, k, [installplan |-> None, installedCSV |-> None])]
               /\ pc' = "wip_enter"
               /\ stack' = <<"woi_81">>
               /\ loc' = [loc EXCEPT !.subscription = k]
               /\ hist' = [h EXCEPT !.muts = @ \cup {Mut("create", "sub", k)}]
               /\ err' = err
    /\ UNCHANGED <<secret, args, ncalls, prom, peer, classes>>

-----------------------------------------------------------------------------
(* wait_for_install_plan_from_subscription                                 *)

SubscriptionStatus(k) ==
    IF k \in DOMAIN store.sub THEN store.sub[k]
    ELSE [installplan |-> None, installedCSV |-> None]

\* the timeout parameter: wait_for_operator_install passes none (line 78)
WipTimeout ==
    IF args.op = "wait_for_install_plan_from_subscription" THEN args.timeout
    ELSE TIMEOUT_5MIN

\* lines 44-51
WipEnter ==
    /\ pc = "wip_enter"
    /\ Goto("wip_poll",
            NewSampler(loc, "ipref", WipTimeout, InstallPlanSleep),
            Step(hist, "poll_install_plan_ref"))
    /\ UNCHANGED <<store, secret, args, ncalls, prom, peer, classes>>

\* WipFound with the InstallPlan handle built without namespace=
WipFoundNoNamespace(l, sample) ==
    /\ Finish([l EXCEPT !.install_plan = Key(sample, None)],
              [WaitEnded(hist, l, "value") EXCEPT !.obs.ipref = sample])
    /\ classes' = ClusterResource(classes, "InstallPlan")
    /\ UNCHANGED store

\* lines 54-60: the InstallPlan handle named by the sample is returned, an
\* instance of cluster_resource(InstallPlan)
WipFound(l, sample) ==
    /\ Finish([l EXCEPT !.install_plan = Key(sample, l.subscription.ns)],
              [WaitEnded(hist, l, "value") EXCEPT !.obs.ipref = sample])
    /\ classes' = ClusterResource(classes, "InstallPlan")
    /\ UNCHANGED store

\* WipExpired without the raise of line 66: the function returns None
WipExpiredSwallow(l) ==
    /\ Finish(l, [WaitEnded(hist, l, "timeout") EXCEPT
                     !.logs = @ \cup {"no_install_plan"}])
    /\ UNCHANGED <<store, classes>>

\* WipExpired with a rollback of the subscription before the re-raise
WipExpiredRollback(l) ==
    /\ Raise("TimeoutExpiredError", l,
             [WaitEnded(hist, l, "timeout") EXCEPT
                 !.logs = @ \cup {"no_install_plan"},
                 !.muts = @ \cup {Mut("delete", "sub", l.subscription)}])
    /\ store' = [store EXCEPT !.sub = Without(@, l.subscription)]
    /\ UNCHANGED classes

\* lines 61-66: log, re-raise
WipExpired(l) ==
    /\ Raise("TimeoutExpiredError", l,
             [WaitEnded(hist, l, "timeout") EXCEPT
                 !.logs = @ \cup {"no_install_plan"}])
    /\ UNCHANGED <<store, classes>>

\* WipPoll with the subscription's status read once: the probe returns
\* subscription.status.installplan of the instance fetched at the first poll
WipPollCached ==
    /\ pc = "wip_poll"
    /\ LET sample == IF loc.probes > 0 THEN loc.sample
                     ELSE SubscriptionStatus(loc.subscription).installplan
           l == Probed(loc, sample, Truthy(sample))
       IN IF Truthy(sample) THEN WipFound(l, sample)
          ELSE IF SamplerExpired(l) THEN WipExpired(l)
          ELSE Goto("wip_poll", SamplerSleep(l), hist)
               /\ UNCHANGED <<store, classes>>
    /\ UNCHANGED <<secret, args, ncalls, prom, peer>>

\* lines 52-66: one turn of the for loop
WipPoll ==
    /\ pc = "wip_poll"
    /\ LET sample == SubscriptionStatus(loc.subscription).installplan
           l == Probed(loc, sample, Truthy(sample))
       IN IF Truthy(sample) THEN WipFound(l, sample)
          ELSE IF SamplerExpired(l) THEN WipExpired(l)
          ELSE Goto("wip_poll", SamplerSleep(l), hist)
               /\ UNCHANGED <<store, classes>>
    /\ UNCHANGED <<secret, args, ncalls, prom, peer>>

-----------------------------------------------------------------------------
(* Resource.wait_for_status: poll the object's status until it is the one  *)
(* waited for, or the timeout passes                                       *)

StatusOf(tkind, k) ==
    IF tkind = "ip"
    THEN IF k \in DOMAIN store.ip THEN store.ip[k] ELSE NoObj
    ELSE IF k \in DOMAIN store.csv THEN store.csv[k] ELSE NoObj

StatusWait(l, tkind, k, want, timeout) ==
    [NewSampler(l, "status", timeout, StatusSleep) EXCEPT
        !.tkind = tkind, !.target = k, !.want = want]

WsPoll ==
    /\ pc = "ws_poll"
    /\ LET status == StatusOf(loc.tkind, loc.target)
           l == Probed(loc, status, status = loc.want)
           h == IF loc.tkind = "ip"
                THEN [hist EXCEPT !.obs.ipKey = loc.target, !.obs.ipStatus = status]
                ELSE [hist EXCEPT !.obs.csvKey = loc.target, !.obs.csvStatus = status]
       IN IF status = loc.want
          THEN Finish(l, WaitEnded(h, l, "value"))
          ELSE IF SamplerExpired(l)
          THEN Raise("TimeoutExpiredError", l, WaitEnded(h, l, "timeout"))
          ELSE Goto("ws_poll", SamplerSleep(l), h)
    /\ UNCHANGED <<store, secret, args, ncalls, prom, peer, classes>>

-----------------------------------------------------------------------------
(* wait_for_operator_install, wait_for_csv_successful_state                *)

\* wait_for_operator_install without its line 81
WoiSkipInstallPlan ==
    /\ pc = "woi_81"
    /\ Goto("woi_82", loc, hist)
    /\ UNCHANGED <<store, secret, args, ncalls, prom, peer, classes>>

\* line 81: install_plan.wait_for_status(COMPLETE, timeout)
WoiWaitInstallPlan ==
    /\ pc = "woi_81"
    /\ pc' = "ws_poll"
    /\ stack' = <<"woi_82">> \o stack
    /\ loc' = StatusWait(loc, "ip", loc.install_plan, "Complete", args.timeout)
    /\ hist' = Step(hist, "poll_install_plan")
    /\ UNCHANGED <<store, secret, args, err, ncalls, prom, peer, classes>>

\* lines 82-85 call wait_for_csv_successful_state, whose lines 99-104 set up
\* the sampler of _wait_for_subscription_installed_csv
WcsEnter ==
    /\ pc \in {"woi_82", "wcs_enter"}
    /\ Goto("wcs_poll",
            NewSampler(loc, "icsv", InstalledCsvTimeout, InstalledCsvSleep),
            Step(hist, "poll_installed_csv"))
    /\ UNCHANGED <<store, secret, args, ncalls, prom, peer, classes>>

\* lines 105-106
WcsFound(l, sample) ==
    Goto("wcs_get_csv", [l EXCEPT !.csv_name = sample],
         [WaitEnded(hist, l, "value") EXCEPT !.obs.icsv = sample])

\* WcsPoll as a loop without a deadline: installedCSV is read again and
\* again until it is there
WcsPollNoDeadline ==
    /\ pc = "wcs_poll"
    /\ LET sample == SubscriptionStatus(loc.subscription).installedCSV
           l == Probed(loc, sample, Truthy(sample))
       IN IF Truthy(sample) THEN WcsFound(l, sample)
          ELSE Goto("wcs_poll", loc, hist)
    /\ UNCHANGED <<store, secret, args, ncalls, prom, peer, classes>>

\* lines 100-106: one turn of the for loop; nothing catches the timeout
WcsPoll ==
    /\ pc = "wcs_poll"
    /\ LET sample == SubscriptionStatus(loc.subscription).installedCSV
           l == Probed(loc, sample, Truthy(sample))
       IN IF Truthy(sample) THEN WcsFound(l, sample)
          ELSE IF SamplerExpired(l)
          THEN Raise("TimeoutExpiredError", l, WaitEnded(hist, l, "timeout"))
          ELSE Goto("wcs_poll", SamplerSleep(l), hist)
    /\ UNCHANGED <<store, secret, args, ncalls, prom, peer, classes>>

\* WcsTimeout with timeout=timeout added to the call of lines 82-85
WcsTimeoutOfCaller == args.timeout

\* the timeout parameter: wait_for_operator_install passes none (line 82)
WcsTimeout ==
    IF args.op = "wait_for_csv_successful_state" THEN args.timeout
    ELSE TIMEOUT_10MIN

\* get_csv_by_name without the test of line 134: the handle is returned
\* whether or not the CSV exists
WcsGetCsvUnchecked ==
    /\ pc = "wcs_get_csv"
    /\ LET k == Key(loc.csv_name, loc.subscription.ns)
           h == Step(hist, "resolve_csv")
       IN Goto("ws_poll",
               StatusWait(loc, "csv", k, "Succeeded", WcsTimeout),
               Step([h EXCEPT !.obs.csvResolved = k], "poll_csv"))
    /\ classes' = ClusterResource(classes, "ClusterServiceVersion")
    /\ UNCHANGED <<store, secret, args, ncalls, prom, peer>>

\* wait_for_csv_successful_state without its line 113
WcsGetCsvNoStatusWait ==
    /\ pc = "wcs_get_csv"
    /\ LET k == Key(loc.csv_name, loc.subscription.ns)
           h == Step(hist, "resolve_csv")
       IN IF k \in DOMAIN store.csv
          THEN Finish(loc, [h EXCEPT !.obs.csvResolved = k])
          ELSE Raise("ResourceNotFoundError", loc, h)
    /\ classes' = ClusterResource(classes, "ClusterServiceVersion")
    /\ UNCHANGED <<store, secret, args, ncalls, prom, peer>>

\* lines 108-113 with get_csv_by_name (116-136): resolve the CSV by name in
\* the subscription's namespace with a handle of
\* cluster_resource(ClusterServiceVersion), then
\* csv.wait_for_status(SUCCEEDED, timeout)
WcsGetCsv ==
    /\ pc = "wcs_get_csv"
    /\ LET k == Key(loc.csv_name, loc.subscription.ns)
           h == Step(hist, "resolve_csv")
       IN IF k \in DOMAIN store.csv
          THEN Goto("ws_poll",
                    StatusWait(loc, "csv", k, "Succeeded", WcsTimeout),
                    Step([h EXCEPT !.obs.csvResolved = k], "poll_csv"))
          ELSE Raise("ResourceNotFoundError", loc, h)
    /\ classes' = ClusterResource(classes, "ClusterServiceVersion")
    /\ UNCHANGED <<store, secret, args, ncalls, prom, peer>>

-----------------------------------------------------------------------------
(* The remote reconciler (OLM): it alone writes status                     *)

Running == ~Idle

\* the subscription gets its install plan; the Operator record appears
RecInstallPlan(k) ==
    /\ store.sub[k].installplan = None
    /\ store' = [store EXCEPT
            !.sub[k].installplan = InstallPlanNameOf(k),
            !.ip = With(@, Key(InstallPlanNameOf(k), k.ns), "Installing"),
            !.op = @ \cup {OperatorRecordName(k)}]

RecInstallPlanStatus(k) ==
    /\ store.sub[k].installplan # None
    /\ LET ipk == Key(store.sub[k].installplan, k.ns)
       IN /\ ipk \in DOMAIN store.ip
          /\ store.ip[ipk] = "Installing"
          /\ \E s \in {"Complete", "Failed"} :
                store' = [store EXCEPT !.ip[ipk] = s]

RecInstalledCsv(k) ==
    /\ store.sub[k].installedCSV = None
    /\ store' = [store EXCEPT !.sub[k].installedCSV = CsvNameOf(k)]

RecCreateCsv(k) ==
    /\ Key(CsvNameOf(k), k.ns) \notin DOMAIN store.csv
    /\ store' = [store EXCEPT !.csv = With(@, Key(CsvNameOf(k), k.ns), "Installing")]

RecCsvStatus(k) ==
    /\ Key(CsvNameOf(k), k.ns) \in DOMAIN store.csv
    /\ store.csv[Key(CsvNameOf(k), k.ns)] = "Installing"
    /\ \E s \in {"Succeeded", "Failed"} :
          store' = [store EXCEPT !.csv[Key(CsvNameOf(k), k.ns)] = s]

\* it works on the subscription the running call holds
Reconciler ==
    /\ Running
    /\ \E k \in DOMAIN store.sub \cap {loc.subscription} :
          \/ RecInstallPlan(k)
          \/ RecInstallPlanStatus(k)
          \/ RecInstalledCsv(k)
          \/ RecCreateCsv(k)
          \/ RecCsvStatus(k)
    /\ UNCHANGED <<secret, pc, stack, args, loc, err, hist, ncalls, prom, peer, classes>>

-----------------------------------------------------------------------------
(* uninstall_operator                                                      *)

CallUninstallOperator ==
    /\ Idle
    /\ ncalls < MaxCalls
    /\ \E n \in OperatorNames, t \in UninstallTimeouts, ons \in OperatorNamespaces :
            args' = [op |-> "uninstall_operator", name |-> n, timeout |-> t,
                     operator_namespace |-> ons]
    /\ pc' = "un_sub"
    /\ stack' = <<>>
    /\ loc' = InitLoc
    /\ hist' = [InitHist EXCEPT !.store0 = store, !.secret0 = secret.data]
    /\ err' = ""
    /\ ncalls' = ncalls + 1
    /\ UNCHANGED <<store, secret, prom, peer, classes>>

\* UnSubscription with lines 244 and 245 exchanged, the name read from the
\* handle's last known state: nothing is recorded
UnSubscriptionDeleteFirst ==
    /\ pc = "un_sub"
    /\ LET k == Key(args.name, OperatorNamespace)
           l == [loc EXCEPT !.subscription = k]
           h == Step(hist, "subscription")
       IN IF k \in DOMAIN store.sub
          THEN /\ store' = [store EXCEPT !.sub = Without(@, k)]
               /\ Goto("un_og", l,
                       [h EXCEPT !.muts = @ \cup {Mut("delete", "sub", k)}])
          ELSE /\ store' = store
               /\ Goto("un_og", l, h)
    /\ UNCHANGED <<secret, args, ncalls, prom, peer, classes>>

\* lines 236-245: remember installedCSV, delete the subscription
UnSubscription ==
    /\ pc = "un_sub"
    /\ LET k == Key(args.name, OperatorNamespace)
           l == [loc EXCEPT !.subscription = k]
           h == Step(hist, "subscription")
       IN IF k \in DOMAIN store.sub
          THEN /\ store' = [store EXCEPT !.sub = Without(@, k)]
               /\ Goto("un_og", [l EXCEPT !.csv_name = store.sub[k].installedCSV],
                       [h EXCEPT !.muts = @ \cup {Mut("delete", "sub", k)}])
          ELSE /\ store' = store
               /\ Goto("un_og", l, h)
    /\ UNCHANGED <<secret, args, ncalls, prom, peer, classes>>

\* lines 247-251: OperatorGroup(...).clean_up(); deleting what is absent is a no-op
UnOperatorGroup ==
    /\ pc = "un_og"
    /\ LET k == Key(args.name, OperatorNamespace)
           h == Step(hist, "operator_group")
       IN IF k \in store.og
          THEN /\ store' = [store EXCEPT !.og = @ \ {k}]
               /\ Goto("un_ops", loc,
                       [h EXCEPT !.muts = @ \cup {Mut("delete", "og", k)}])
          ELSE /\ store' = store
               /\ Goto("un_ops", loc, h)
    /\ UNCHANGED <<secret, args, ncalls, prom, peer, classes>>

\* line 256: namespace = operator_namespace or name.split(".")[-1], where
\* operator_namespace was rebound on line 237 and is never empty
ScanNamespace == OperatorNamespace

\* the orders in which a list request may return the members of a set
ListingsOf(S) ==
    {q \in [1..Cardinality(S) -> S] :
        \A i \in 1..Len(q) : \A j \in 1..Len(q) : q[i] = q[j] => i = j}

\* line 253: Operator.get lists the Operator records once; the loop goes
\* over that list
UnOperators ==
    /\ pc = "un_ops"
    /\ \E ops \in ListingsOf(store.op) :
          Goto("un_op", [loc EXCEPT !.ops = ops], Step(hist, "operators"))
    /\ UNCHANGED <<store, secret, args, ncalls, prom, peer, classes>>

\* lines 254-259, one turn of the for loop: the next record; when its name
\* starts with name and the namespace exists, ns.clean_up() sends the delete
\* and then waits for the namespace to be gone. The loop over, line 261
UnOperator ==
    /\ pc = "un_op"
    /\ IF loc.ops = <<>>
       THEN /\ store' = store
            /\ Goto("un_csv", loc, hist)
       ELSE LET o == Head(loc.ops)
                n == ScanNamespace
                l == [loc EXCEPT !.ops = Tail(@)]
            IN IF StartsWith(o, args.name) /\ n \in store.ns
               THEN /\ store' = DeleteNamespace(store, n)
                    /\ Goto("un_ns_wait", l,
                            [hist EXCEPT !.muts = @ \cup
                                {Mut("delete", "ns", Key(n, None))}])
               ELSE /\ store' = store
                    /\ Goto("un_op", l, hist)
    /\ UNCHANGED <<secret, args, ncalls, prom, peer, classes>>

\* line 259, the wait of ns.clean_up(): the loop goes on once the namespace
\* is not there
UnNamespaceWait ==
    /\ pc = "un_ns_wait"
    /\ ScanNamespace \notin store.ns
    /\ Goto("un_op", loc, hist)
    /\ UNCHANGED <<store, secret, args, ncalls, prom, peer, classes>>

\* uninstall_operator without its line 268
UnCsvNoWait ==
    /\ pc = "un_csv"
    /\ Finish(loc, hist)
    /\ UNCHANGED <<store, secret, args, ncalls, prom, peer, classes>>

\* lines 261-268: csv.wait_deleted(timeout) when a CSV name was recorded
UnCsv ==
    /\ pc = "un_csv"
    /\ IF Truthy(loc.csv_name)
       THEN Goto("wd_poll",
                 [NewSampler(loc, "deleted", args.timeout, StatusSleep) EXCEPT
                     !.tkind = "csv",
                     !.target = Key(loc.csv_name, loc.subscription.ns)],
                 Step(hist, "wait_csv_deleted"))
       ELSE Finish(loc, hist)
    /\ UNCHANGED <<store, secret, args, ncalls, prom, peer, classes>>

\* Resource.wait_deleted: poll exists until it is false, or the timeout passes
WdPoll ==
    /\ pc = "wd_poll"
    /\ LET exists == loc.target \in DOMAIN store.csv
           l == Probed(loc, exists, ~exists)
       IN IF ~exists
          THEN Finish(l, [WaitEnded(hist, l, "value") EXCEPT
                             !.obs.csvGone = loc.target])
          ELSE IF SamplerExpired(l)
          THEN Raise("TimeoutExpiredError", l, WaitEnded(hist, l, "timeout"))
          ELSE Goto("wd_poll", SamplerSleep(l), hist)
    /\ UNCHANGED <<store, secret, args, ncalls, prom, peer, classes>>

\* OLM removes the CSV of an operator being uninstalled
CsvCollected ==
    /\ pc = "wd_poll"
    /\ loc.target \in DOMAIN store.csv
    /\ store' = [store EXCEPT !.csv = Without(@, loc.target)]
    /\ UNCHANGED <<secret, pc, stack, args, loc, err, hist, ncalls, prom, peer, classes>>

-----------------------------------------------------------------------------
(* create_update_secret (infra.py)                                         *)
(* A dict is the sequence of its <<key, value>> items in insertion order.  *)

DictKeys(d) == {d[i][1] : i \in 1..Len(d)}

DictIndex(d, k) == CHOOSE i \in 1..Len(d) : d[i][1] = k

DictGet(d, k) == d[DictIndex(d, k)][2]

\* d[k] = v
DictSet(d, k, v) ==
    IF k \in DictKeys(d)
    THEN [d EXCEPT ![DictIndex(d, k)] = <<k, v>>]
    ELSE Append(d, <<k, v>>)

\* old.update(new)
RECURSIVE DictUpdate(_, _)
DictUpdate(old, new) ==
    IF new = <<>> THEN old
    ELSE DictUpdate(DictSet(old, Head(new)[1], Head(new)[2]), Tail(new))

\* json.dumps({"auths": auths}): the text, as its tokens
RECURSIVE JsonItems(_)
JsonItems(d) ==
    IF d = <<>> THEN <<>>
    ELSE <<Head(d)[1], Head(d)[2]>> \o JsonItems(Tail(d))

JsonDumps(auths) == <<"auths">> \o JsonItems(auths)

\* json.loads(text)["auths"]; a key given twice keeps its last value
RECURSIVE JsonLoadsItems(_, _)
JsonLoadsItems(t, acc) ==
    IF Len(t) < 2 THEN acc
    ELSE JsonLoadsItems(Drop(t, 2), DictSet(acc, t[1], t[2]))

JsonLoadsAuths(t) == JsonLoadsItems(Tail(t), <<>>)

\* dict_base64_encode, lines 370-380
DictBase64Encode(auths) == <<"b64">> \o JsonDumps(auths)

Base64Decode(data) == Tail(data)

NoSecret == [exists |-> FALSE, data |-> <<>>]

\* MergedSecret without the update of line 413: the new auths replace the old
ReplacedSecret(stored, new_auths) == DictBase64Encode(new_auths)

\* lines 410-416: the stored auths updated with the new ones, encoded
MergedSecret(stored, new_auths) ==
    DictBase64Encode(DictUpdate(JsonLoadsAuths(Base64Decode(stored.data)), new_auths))

\* lines 405-416, 424-426: read the secret and merge, or create it
CusRead ==
    /\ pc = "cus_read"
    /\ IF secret.exists
       THEN /\ Goto("cus_write",
                    [loc EXCEPT !.encoded = MergedSecret(secret, loc.secret_data)],
                    hist)
            /\ secret' = secret
       ELSE /\ secret' = [exists |-> TRUE, data |-> DictBase64Encode(loc.secret_data)]
            /\ Finish(loc, [hist EXCEPT !.muts = @ \cup
                              {Mut("create", "secret", NoKey)}])
    /\ UNCHANGED <<store, args, ncalls, prom, peer, classes>>

\* CusWrite as a conditional update: when the secret is no longer the one
\* the merge was computed from, the call reads and merges again
CusWriteRetryOnConflict ==
    /\ pc = "cus_write"
    /\ IF MergedSecret(secret, loc.secret_data) # loc.encoded
       THEN /\ secret' = secret
            /\ Goto("cus_read", loc, hist)
       ELSE /\ secret' = [secret EXCEPT !.data = loc.encoded]
            /\ Finish(loc, [hist EXCEPT !.muts = @ \cup
                              {Mut("patch", "secret", NoKey)}])
    /\ UNCHANGED <<store, args, ncalls, prom, peer, classes>>

\* lines 418-422: the patch with the merged data
CusWrite ==
    /\ pc = "cus_write"
    /\ secret' = [secret EXCEPT !.data = loc.encoded]
    /\ Finish(loc, [hist EXCEPT !.muts = @ \cup {Mut("patch", "secret", NoKey)}])
    /\ UNCHANGED <<store, args, ncalls, prom, peer, classes>>

-----------------------------------------------------------------------------
(* create_catalog_source_for_iib_install                                   *)

\* _resource_name in _resources: a substring test
ContainsIcspResource(r) ==
    r \in {IcspResource, "imagecontentsourcepolicies/status"}

\* list.index(x): 0 stands for the ValueError of a missing element
ListIndex(xs, x) ==
    IF \E i \in 1..Len(xs) : xs[i] = x
    THEN CHOOSE i \in 1..Len(xs) : xs[i] = x /\ \A j \in 1..(i - 1) : xs[j] # x
    ELSE 0

\* lines 294-298 for one rule's resources
ManipulateResources(rs) ==
    IF \E i \in 1..Len(rs) : ContainsIcspResource(rs[i])
    THEN [rs EXCEPT ![ListIndex(rs, IcspResource)] = "nonexists"]
    ELSE rs

ManipulateFails(webhooks) ==
    \E w \in 1..Len(webhooks) : \E r \in 1..Len(webhooks[w]) :
        /\ \E i \in 1..Len(webhooks[w][r]) : ContainsIcspResource(webhooks[w][r][i])
        /\ ListIndex(webhooks[w][r], IcspResource) = 0

\* lines 287-300
ManipulateWebhooks(webhooks) ==
    [w \in 1..Len(webhooks) |->
        [r \in 1..Len(webhooks[w]) |-> ManipulateResources(webhooks[w][r])]]

\* lines 319-321
SourceIibRegistry(image) == SplitFirst(image, "/")
MirroredImage(image) == Replace(image, SourceIibRegistry(image), BrewRegistry)

\* lines 326-335
RepositoryDigestMirrors(image) ==
    << [source |-> SourceIibRegistry(image), mirrors |-> <<BrewRegistry>>],
       [source |-> RedHatRegistry, mirrors |-> <<BrewRegistry>>] >>

\* lines 337-352: on a managed cluster the webhook rule is suspended by a
\* ResourceEditor that keeps a backup of what it patches
IibSuspendWebhook ==
    /\ pc = "iib_begin"
    /\ IF ~store.vwc.exists
       THEN /\ store' = store
            /\ Goto("iib_icsp", loc, hist)
       ELSE IF ManipulateFails(store.vwc.webhooks)
       THEN /\ store' = store
            /\ Raise("ValueError", loc, hist)
       ELSE /\ store' = [store EXCEPT !.vwc.webhooks = ManipulateWebhooks(@)]
            /\ Goto("iib_icsp", [loc EXCEPT !.backup = store.vwc],
                    [hist EXCEPT !.muts = @ \cup {Mut("patch", "vwc", NoKey)}])
    /\ UNCHANGED <<secret, args, ncalls, prom, peer, classes>>

\* a merge patch of an ImageContentSourcePolicy: of the keys of the patch the
\* API keeps those of the object's schema
IcspPatched(icsp, patch_key, mirrors) ==
    IF patch_key = "spec" THEN [icsp EXCEPT !.repositoryDigestMirrors = mirrors]
    ELSE icsp

\* the API server may refuse a write
WriteOutcomes == {"ok", "ApiException"}

\* lines 302-317 (and create_icsp, infra.py 362-367); an exception raised
\* inside the with block of lines 346-353 leaves through the block's exit
IibIcsp ==
    /\ pc = "iib_icsp"
    /\ LET mirrors == RepositoryDigestMirrors(args.iib_index_image)
           after == IF loc.backup.exists THEN "iib_restore" ELSE "iib_secret"
       IN \E outcome \in WriteOutcomes :
          IF outcome # "ok"
          THEN /\ store' = store
               /\ IF loc.backup.exists
                  THEN Goto("iib_restore", [loc EXCEPT !.exc = outcome], hist)
                  ELSE Raise(outcome, loc, hist)
          ELSE IF store.icsp.exists
          THEN /\ store' = [store EXCEPT !.icsp = IcspPatched(@, "spec:", mirrors)]
               /\ Goto(after, loc,
                       [hist EXCEPT !.muts = @ \cup {Mut("patch", "icsp", NoKey)}])
          ELSE /\ store' = [store EXCEPT
                    !.icsp = [exists |-> TRUE, repositoryDigestMirrors |-> mirrors]]
               /\ Goto(after, loc,
                       [hist EXCEPT !.muts = @ \cup {Mut("create", "icsp", NoKey)}])
    /\ UNCHANGED <<secret, args, ncalls, prom, peer, classes>>

\* IibRestoreWebhook with the patch applied by ResourceEditor(...).update()
\* and restored by a statement after _icsp, outside any with or finally
IibRestoreWebhookUnscoped ==
    /\ pc = "iib_restore"
    /\ IF loc.exc # ""
       THEN /\ store' = store
            /\ Raise(loc.exc, loc, hist)
       ELSE /\ store' = [store EXCEPT !.vwc.webhooks = loc.backup.webhooks]
            /\ Goto("iib_secret", loc,
                    [hist EXCEPT !.muts = @ \cup {Mut("patch", "vwc", NoKey)}])
    /\ UNCHANGED <<secret, args, ncalls, prom, peer, classes>>

\* leaving the with block of lines 346-353: the backup is written back, then
\* an exception raised in the block goes on to the caller
IibRestoreWebhook ==
    /\ pc = "iib_restore"
    /\ store' = [store EXCEPT !.vwc.webhooks = loc.backup.webhooks]
    /\ LET h == [hist EXCEPT !.muts = @ \cup {Mut("restore", "vwc", NoKey)}]
       IN IF loc.exc # "" THEN Raise(loc.exc, loc, h)
          ELSE Goto("iib_secret", loc, h)
    /\ UNCHANGED <<secret, args, ncalls, prom, peer, classes>>

\* lines 357-362: the call of create_update_secret
IibSecret ==
    /\ pc = "iib_secret"
    /\ pc' = "cus_read"
    /\ stack' = <<"iib_cs">> \o stack
    /\ loc' = [loc EXCEPT !.secret_data = << <<BrewRegistry, args.brew_token>> >>]
    /\ UNCHANGED <<store, secret, args, err, hist, ncalls, prom, peer, classes>>

\* the name argument of create_catalog_source_for_iib_install: what
\* install_operator passes on line 174, or what the caller gave
IibName ==
    IF args.op = "install_operator" THEN CatalogSourceName(args.name)
    ELSE args.name

\* lines 364-374: catalog_source.deploy(wait=True)
IibCatalogSource ==
    /\ pc = "iib_cs"
    /\ LET n == IibName
       IN IF \E c \in store.cs : c.name = n
          THEN /\ store' = store
               /\ Raise("ConflictError", loc, hist)
          ELSE /\ store' = [store EXCEPT !.cs = @ \cup
                    {[name |-> n, image |-> MirroredImage(args.iib_index_image)]}]
               /\ Finish(loc, [hist EXCEPT !.muts = @ \cup
                                  {Mut("create", "cs", Key(n, MarketNamespace))}])
    /\ UNCHANGED <<secret, args, ncalls, prom, peer, classes>>

-----------------------------------------------------------------------------
(* The orchestration                                                       *)

\* the pull-secret of a cluster that already holds a credential
ClusterPullSecret ==
    [exists |-> TRUE, data |-> DictBase64Encode(<< <<RedHatRegistry, <<"x">>>> >>)]

\* a response to /api/v1/query: status, errorType, data.result if data is there
Response(status, error, has_data, result) ==
    [status |-> status, error |-> error, hasData |-> has_data, result |-> result]

NoResponse == Response("error", "unavailable", FALSE, <<>>)

InitProm ==
    [endpoint |-> FALSE, constructed |-> FALSE, scrape_interval |-> 0,
     targets |-> <<>>, discovered |-> <<>>, alerts |-> <<>>, polled |-> <<>>,
     target_queries |-> 0, query |-> NoResponse]

Init ==
    /\ store \in InitialStores
    /\ secret = IF store = EmptyStore THEN NoSecret ELSE ClusterPullSecret
    /\ pc = "idle"
    /\ stack = <<>>
    /\ args = NoArgs
    /\ loc = InitLoc
    /\ err = ""
    /\ hist = InitHist
    /\ ncalls = 0
    /\ prom = InitProm
    /\ peer = NoPeer
    /\ classes = NoClasses

InstallSteps ==
    \/ IoCheck
    \/ IoNamespaces
    \/ IoOperatorGroup
    \/ IoSubscription

IibSteps ==
    \/ IibSuspendWebhook
    \/ IibIcsp
    \/ IibRestoreWebhook
    \/ IibSecret
    \/ CusRead
    \/ CusWrite
    \/ IibCatalogSource

WaitSteps ==
    \/ WipEnter
    \/ WipPoll
    \/ WoiWaitInstallPlan
    \/ WsPoll
    \/ WcsEnter
    \/ WcsPoll
    \/ WcsGetCsv

UninstallSteps ==
    \/ UnSubscription
    \/ UnOperatorGroup
    \/ UnOperators
    \/ UnOperator
    \/ UnNamespaceWait
    \/ UnCsv
    \/ WdPoll

Next ==
    \/ CallInstallOperator
    \/ CallUninstallOperator
    \/ InstallSteps
    \/ IibSteps
    \/ UninstallSteps
    \/ WaitSteps
    \/ Reconciler
    \/ CsvCollected

Spec == Init /\ [][Next]_vars

\* a call is one thread of the interpreter: its next step is always taken,
\* a sleep always ends; nothing is assumed of the reconciler or of callers
ThreadStep ==
    \/ InstallSteps
    \/ IibSteps
    \/ UninstallSteps
    \/ WaitSteps

LiveSpec == Init /\ [][Next]_vars /\ WF_vars(ThreadStep)

-----------------------------------------------------------------------------
(* Prometheus (monitoring.py)                                              *)

MaxTimeout == 4

PrometheusJob == "prometheus-k8s"
DefaultScrapeInterval == 30

Target(job, interval) == [empty |-> FALSE, job |-> job, scrapeInterval |-> interval]
EmptyTarget == [empty |-> TRUE, job |-> "", scrapeInterval |-> <<>>]

\* responses of /api/v1/targets (data.activeTargets)
TargetsResponses ==
    { <<>>,
      << Target("node-exporter", <<"1", "5", "s">>), Target(PrometheusJob, <<"2", "s">>) >>,
      << EmptyTarget, Target(PrometheusJob, <<"1", "m">>), Target(PrometheusJob, <<"2", "s">>) >>,
      << Target(PrometheusJob, <<"1", "5", "s">>) >> }

Alert(name, state) == [alertname |-> name, state |-> state]

AlertNames == {"WatchDog", "Other"}
AlertStates == {"firing", "pending"}

\* responses of /api/v1/alerts (data.alerts)
AlertsResponses ==
    { <<>>,
      << Alert("WatchDog", "pending") >>,
      << Alert("Other", "firing"), Alert("WatchDog", "firing") >>,
      << Alert("WatchDog", "firing"), Alert("WatchDog", "pending"),
         Alert("WatchDog", "firing") >> }

IsDigit(c) == c \in {"0", "1", "2", "3", "4", "5", "6", "7", "8", "9"}

DigitValue(c) ==
    CASE c = "0" -> 0 [] c = "1" -> 1 [] c = "2" -> 2 [] c = "3" -> 3
      [] c = "4" -> 4 [] c = "5" -> 5 [] c = "6" -> 6 [] c = "7" -> 7
      [] c = "8" -> 8 [] c = "9" -> 9

\* int(re.match(r"\d+", s).group()): the digits the string begins with
RECURSIVE LeadingInt(_, _)
LeadingInt(s, acc) ==
    IF s = <<>> \/ ~IsDigit(Head(s)) THEN acc
    ELSE LeadingInt(Tail(s), 10 * acc + DigitValue(Head(s)))

\* lines 154-167
RECURSIVE GetScrapeInterval(_)
GetScrapeInterval(targets) ==
    IF targets = <<>> THEN DefaultScrapeInterval
    ELSE IF ~Head(targets).empty /\ Head(targets).job = PrometheusJob
         THEN LeadingInt(Head(targets).scrapeInterval, 0)
         ELSE GetScrapeInterval(Tail(targets))

\* GetAllAlertsByAlertName without the test of line 128
GetAllAlertsUnfiltered(response, alert_name) == response

\* lines 112-130
GetAllAlertsByAlertName(response, alert_name) ==
    LET Named(a) == a.alertname = alert_name
    IN SelectSeq(response, Named)

\* lines 207-212
GetAlertsByState(response, alert_name, state) ==
    LET InState(a) == a.state = state
    IN SelectSeq(GetAllAlertsByAlertName(response, alert_name), InState)

\* lines 34-48: the constructor discovers the scrape interval
PromInit ==
    /\ pc = "idle"
    /\ prom.endpoint /\ ~prom.constructed
    /\ prom' = [prom EXCEPT !.constructed = TRUE,
                            !.scrape_interval = GetScrapeInterval(prom.targets),
                            !.discovered = prom.targets,
                            !.target_queries = @ + 1]
    /\ UNCHANGED <<store, secret, pc, stack, args, loc, err, hist, ncalls, peer, classes>>

CallWaitForAlert ==
    /\ Idle
    /\ prom.constructed
    /\ ncalls < MaxCalls
    /\ \E n \in AlertNames, t \in 0..MaxTimeout, st \in AlertStates :
          args' = [op |-> "wait_for_alert_by_state_sampler", alert_name |-> n,
                   timeout |-> t, state |-> st]
    /\ pc' = "alert_enter"
    /\ stack' = <<>>
    /\ loc' = InitLoc
    /\ hist' = [InitHist EXCEPT !.store0 = store, !.secret0 = secret.data]
    /\ err' = ""
    /\ ncalls' = ncalls + 1
    /\ UNCHANGED <<store, secret, prom, peer, classes>>

\* the timeout and the state wait_for_alert_by_state_sampler runs with: its
\* own arguments, or its defaults when wait_for_firing_alert_sampler calls
\* it with alert_name alone (line 152)
AlertTimeout ==
    IF args.op = "wait_for_firing_alert_sampler" THEN TIMEOUT_10MIN
    ELSE args.timeout

AlertState ==
    IF args.op = "wait_for_firing_alert_sampler" THEN "firing"
    ELSE args.state

FiringTimeouts == {0, MaxTimeout}

\* lines 138-152
CallWaitForFiringAlert ==
    /\ Idle
    /\ prom.constructed
    /\ ncalls < MaxCalls
    /\ \E n \in AlertNames, t \in FiringTimeouts :
          args' = [op |-> "wait_for_firing_alert_sampler", alert_name |-> n,
                   timeout |-> t]
    /\ pc' = "alert_enter"
    /\ stack' = <<>>
    /\ loc' = InitLoc
    /\ hist' = [InitHist EXCEPT !.store0 = store, !.secret0 = secret.data]
    /\ err' = ""
    /\ ncalls' = ncalls + 1
    /\ UNCHANGED <<store, secret, prom, peer, classes>>

\* AlertEnter with TimeoutSampler's sleep left at a fixed 30 seconds
AlertEnterFixedSleep ==
    /\ pc = "alert_enter"
    /\ Goto("alert_poll",
            NewSampler(loc, "alert", AlertTimeout, DefaultScrapeInterval), hist)
    /\ UNCHANGED <<store, secret, args, ncalls, prom, peer, classes>>

\* lines 231-237
AlertEnter ==
    /\ pc = "alert_enter"
    /\ Goto("alert_poll",
            NewSampler(loc, "alert", AlertTimeout, prom.scrape_interval), hist)
    /\ UNCHANGED <<store, secret, args, ncalls, prom, peer, classes>>

\* AlertFound without the return of line 242
AlertFoundNoReturn(l, sample) ==
    Goto("alert_poll", SamplerSleep(l), hist)

\* lines 240-242
AlertFound(l, sample) ==
    Finish([l EXCEPT !.ret = sample], WaitEnded(hist, l, "value"))

\* lines 239-242: one turn of the for loop; nothing catches the timeout
AlertPoll ==
    /\ pc = "alert_poll"
    /\ LET sample == GetAlertsByState(prom.alerts, args.alert_name, AlertState)
           l == Probed(loc, sample, sample # <<>>)
       IN IF sample # <<>> THEN AlertFound(l, sample)
          ELSE IF SamplerExpired(l)
          THEN Raise("TimeoutExpiredError", l, WaitEnded(hist, l, "timeout"))
          ELSE Goto("alert_poll", SamplerSleep(l), hist)
    /\ prom' = [prom EXCEPT !.polled = prom.alerts]
    /\ UNCHANGED <<store, secret, args, ncalls, peer, classes>>

\* the monitoring system: alerts come and go while a call runs
AlertsChange ==
    /\ pc \in {"alert_poll", "gabs"}
    /\ \E r \in AlertsResponses \ {prom.alerts} : prom' = [prom EXCEPT !.alerts = r]
    /\ UNCHANGED <<store, secret, pc, stack, args, loc, err, hist, ncalls, peer, classes>>

CallGetAlertsByState ==
    /\ Idle
    /\ prom.constructed
    /\ ncalls < MaxCalls
    /\ \E n \in AlertNames, st \in AlertStates :
          args' = [op |-> "get_alerts_by_state", alert_name |-> n, state |-> st]
    /\ pc' = "gabs"
    /\ stack' = <<>>
    /\ loc' = InitLoc
    /\ hist' = [InitHist EXCEPT !.store0 = store, !.secret0 = secret.data]
    /\ err' = ""
    /\ ncalls' = ncalls + 1
    /\ UNCHANGED <<store, secret, prom, peer, classes>>

\* lines 207-212: the alerts are requested, then filtered
GabsReturn ==
    /\ pc = "gabs"
    /\ Finish([loc EXCEPT !.ret =
                  GetAlertsByState(prom.alerts, args.alert_name, args.state)],
              hist)
    /\ prom' = [prom EXCEPT !.polled = prom.alerts]
    /\ UNCHANGED <<store, secret, args, ncalls, peer, classes>>

\* responses of /api/v1/query
QueryResponses ==
    { NoResponse,
      Response("error", "bad_data", FALSE, <<>>),
      Response("success", "", TRUE, <<"up">>),
      Response("success", "", FALSE, <<>>) }

\* sample.get("data", {}).get("result")
QueryResult(sample) == IF sample.hasData THEN sample.result ELSE None

CallQuerySampler ==
    /\ Idle
    /\ prom.constructed
    /\ ncalls < MaxCalls
    /\ \E t \in 0..MaxTimeout :
          args' = [op |-> "query_sampler", timeout |-> t]
    /\ pc' = "query_enter"
    /\ stack' = <<>>
    /\ loc' = InitLoc
    /\ hist' = [InitHist EXCEPT !.store0 = store, !.secret0 = secret.data]
    /\ err' = ""
    /\ ncalls' = ncalls + 1
    /\ UNCHANGED <<store, secret, prom, peer, classes>>

\* lines 183-189
QueryEnter ==
    /\ pc = "query_enter"
    /\ Goto("query_poll",
            NewSampler(loc, "query", args.timeout, prom.scrape_interval), hist)
    /\ UNCHANGED <<store, secret, args, ncalls, prom, peer, classes>>

\* QueryExpired with the timeout caught and None returned
QueryExpiredSwallow(l) ==
    Finish([l EXCEPT !.logged = <<l.sample>>], WaitEnded(hist, l, "timeout"))

\* lines 194-199: the last sample is logged, the timeout raised again
QueryExpired(l) ==
    Raise("TimeoutExpiredError", [l EXCEPT !.logged = <<l.sample>>],
          WaitEnded(hist, l, "timeout"))

\* lines 190-199: one turn of the for loop
QueryPoll ==
    /\ pc = "query_poll"
    /\ LET sample == prom.query
           l == Probed(loc, sample, sample.status = "success")
       IN IF sample.status = "success"
          THEN Finish([l EXCEPT !.ret = QueryResult(sample)],
                      WaitEnded(hist, l, "value"))
          ELSE IF SamplerExpired(l) THEN QueryExpired(l)
          ELSE Goto("query_poll", SamplerSleep(l), hist)
    /\ UNCHANGED <<store, secret, args, ncalls, prom, peer, classes>>

\* the monitoring system: the answer to the query changes while a wait runs
QueryChange ==
    /\ pc = "query_poll"
    /\ \E r \in QueryResponses \ {prom.query} : prom' = [prom EXCEPT !.query = r]
    /\ UNCHANGED <<store, secret, pc, stack, args, loc, err, hist, ncalls, peer, classes>>

\* the scrape configuration is changed after the object was constructed
TargetsChange ==
    /\ pc = "idle"
    /\ prom.constructed /\ prom.targets = prom.discovered
    /\ \E t \in TargetsResponses \ {prom.targets} : prom' = [prom EXCEPT !.targets = t]
    /\ UNCHANGED <<store, secret, pc, stack, args, loc, err, hist, ncalls, peer, classes>>

-----------------------------------------------------------------------------
(* The waits called on their own                                           *)

\* a cluster where install_operator has just created the subscription of "ab"
FreshStore ==
    [EmptyStore EXCEPT
        !.ns = {NameA},
        !.og = {InstalledKey},
        !.sub = (InstalledKey :> [installplan |-> None, installedCSV |-> None])]

WaitTimeouts == {0, InstallPlanSleep + 15, 2 * InstallPlanSleep}
CsvTimeouts == {0, 2 * StatusSleep}

CallWaitForInstallPlan ==
    /\ Idle
    /\ ncalls < MaxCalls
    /\ \E k \in DOMAIN store.sub, t \in WaitTimeouts :
          /\ args' = [op |-> "wait_for_install_plan_from_subscription",
                      subscription |-> k, timeout |-> t]
          /\ loc' = [InitLoc EXCEPT !.subscription = k]
    /\ pc' = "wip_enter"
    /\ stack' = <<>>
    /\ hist' = [InitHist EXCEPT !.store0 = store, !.secret0 = secret.data]
    /\ err' = ""
    /\ ncalls' = ncalls + 1
    /\ UNCHANGED <<store, secret, prom, peer, classes>>

CallWaitForCsv ==
    /\ Idle
    /\ ncalls < MaxCalls
    /\ \E k \in DOMAIN store.sub, t \in CsvTimeouts :
          /\ args' = [op |-> "wait_for_csv_successful_state",
                      subscription |-> k, timeout |-> t]
          /\ loc' = [InitLoc EXCEPT !.subscription = k]
    /\ pc' = "wcs_enter"
    /\ stack' = <<>>
    /\ hist' = [InitHist EXCEPT !.store0 = store, !.secret0 = secret.data]
    /\ err' = ""
    /\ ncalls' = ncalls + 1
    /\ UNCHANGED <<store, secret, prom, peer, classes>>

\* lines 69-85 called on their own: the first step is the call of line 78
CallWaitForOperatorInstall ==
    /\ Idle
    /\ ncalls < MaxCalls
    /\ \E k \in DOMAIN store.sub, t \in InstallTimeouts :
          /\ args' = [op |-> "wait_for_operator_install",
                      subscription |-> k, timeout |-> t]
          /\ loc' = [InitLoc EXCEPT !.subscription = k]
    /\ pc' = "wip_enter"
    /\ stack' = <<"woi_81">>
    /\ hist' = [InitHist EXCEPT !.store0 = store, !.secret0 = secret.data]
    /\ err' = ""
    /\ ncalls' = ncalls + 1
    /\ UNCHANGED <<store, secret, prom, peer, classes>>

PromEndpoints ==
    {[InitProm EXCEPT !.endpoint = TRUE, !.targets = t, !.alerts = a] :
        t \in TargetsResponses, a \in AlertsResponses}

InitWaits ==
    /\ \/ store \in {FreshStore, InstalledStore} /\ prom = InitProm
       \/ store = EmptyStore /\ prom \in PromEndpoints
    /\ secret = NoSecret
    /\ pc = "idle"
    /\ stack = <<>>
    /\ args = NoArgs
    /\ loc = InitLoc
    /\ err = ""
    /\ hist = InitHist
    /\ ncalls = 0
    /\ peer = NoPeer
    /\ classes = NoClasses

NextWaits ==
    \/ PromInit
    \/ TargetsChange
    \/ CallWaitForAlert
    \/ CallWaitForFiringAlert
    \/ CallGetAlertsByState
    \/ GabsReturn
    \/ CallQuerySampler
    \/ QueryEnter
    \/ QueryPoll
    \/ QueryChange
    \/ AlertEnter
    \/ AlertPoll
    \/ AlertsChange
    \/ CallWaitForInstallPlan
    \/ CallWaitForCsv
    \/ CallWaitForOperatorInstall
    \/ WipEnter
    \/ WipPoll
    \/ WoiWaitInstallPlan
    \/ WcsEnter
    \/ WcsPoll
    \/ WcsGetCsv
    \/ WsPoll
    \/ Reconciler

SpecWaits == InitWaits /\ [][NextWaits]_vars

-----------------------------------------------------------------------------
(* create_update_secret called on its own                                  *)

RegistryKeys == {<<"a">>, <<"b">>}
AuthValues == {<<"x">>, <<"y">>}

\* the auths maps of at most two registries
AuthsDicts ==
    {<<>>}
    \cup {<< <<k, v>> >> : k \in RegistryKeys, v \in AuthValues}
    \cup {d \in {<< <<k1, v1>>, <<k2, v2>> >> :
                    k1 \in RegistryKeys, k2 \in RegistryKeys,
                    v1 \in AuthValues, v2 \in AuthValues} : d[1][1] # d[2][1]}

CallCreateUpdateSecret ==
    /\ Idle
    /\ ncalls < MaxCalls
    /\ \E d \in AuthsDicts :
          /\ args' = [op |-> "create_update_secret", secret_data |-> d]
          /\ loc' = [InitLoc EXCEPT !.secret_data = d]
    /\ pc' = "cus_read"
    /\ stack' = <<>>
    /\ hist' = [InitHist EXCEPT !.store0 = store, !.secret0 = secret.data]
    /\ err' = ""
    /\ ncalls' = ncalls + 1
    /\ UNCHANGED <<store, secret, prom, peer, classes>>

InitSecret ==
    /\ store = EmptyStore
    /\ prom = InitProm
    /\ secret \in {NoSecret} \cup
          {[exists |-> TRUE, data |-> DictBase64Encode(d)] : d \in AuthsDicts}
    /\ pc = "idle"
    /\ stack = <<>>
    /\ args = NoArgs
    /\ loc = InitLoc
    /\ err = ""
    /\ hist = InitHist
    /\ ncalls = 0
    /\ peer = NoPeer
    /\ classes = NoClasses

NextSecret ==
    \/ CallCreateUpdateSecret
    \/ CusRead
    \/ CusWrite

SpecSecret == InitSecret /\ [][NextSecret]_vars

-----------------------------------------------------------------------------
(* Two callers of create_update_secret on the same pull-secret             *)

\* the registry each caller may add a credential for
PeerAuths == {<< <<k, <<"y">>>> >> : k \in RegistryKeys}

\* a second thread calls create_update_secret(secret_data_dict, name,
\* namespace) with the name and namespace of the first
PeerCall ==
    /\ peer.pc = "idle"
    /\ \E d \in PeerAuths :
          peer' = [peer EXCEPT !.pc = "cus_read", !.secret_data = d]
    /\ UNCHANGED <<store, secret, pc, stack, args, loc, err, hist, ncalls,
                   prom, classes>>

\* lines 405-416, 424-426 on the second thread
PeerRead ==
    /\ peer.pc = "cus_read"
    /\ IF secret.exists
       THEN /\ peer' = [peer EXCEPT
                    !.pc = "cus_write",
                    !.encoded = MergedSecret(secret, peer.secret_data),
                    !.at_read = pc]
            /\ secret' = secret
       ELSE /\ secret' = [exists |-> TRUE,
                          data |-> DictBase64Encode(peer.secret_data)]
            /\ peer' = [peer EXCEPT !.pc = "returned", !.at_read = pc,
                                    !.at_write = pc]
    /\ UNCHANGED <<store, pc, stack, args, loc, err, hist, ncalls, prom,
                   classes>>

\* lines 418-422 on the second thread
PeerWrite ==
    /\ peer.pc = "cus_write"
    /\ secret' = [secret EXCEPT !.data = peer.encoded]
    /\ peer' = [peer EXCEPT !.pc = "returned", !.at_write = pc]
    /\ UNCHANGED <<store, pc, stack, args, loc, err, hist, ncalls, prom,
                   classes>>

\* the pull-secret both callers update: it holds a credential of neither
\* registry they add
InitRace ==
    /\ store = NamespaceStore
    /\ secret \in {ClusterPullSecret,
                    [exists |-> TRUE, data |-> DictBase64Encode(<<>>)]}
    /\ prom = InitProm
    /\ pc = "idle"
    /\ stack = <<>>
    /\ args = NoArgs
    /\ loc = InitLoc
    /\ err = ""
    /\ hist = InitHist
    /\ ncalls = 0
    /\ peer = NoPeer
    /\ classes = NoClasses

NextRace ==
    \/ CallCreateUpdateSecret
    \/ CusRead
    \/ CusWrite
    \/ PeerCall
    \/ PeerRead
    \/ PeerWrite

SpecRace == InitRace /\ [][NextRace]_vars

-----------------------------------------------------------------------------
(* cluster_resource and the clean_up of the classes it returns             *)

MaxClasses == 3

BaseClasses == {"Namespace", "Pod"}

\* lines 274-305
CallClusterResource ==
    /\ Idle
    /\ Len(classes.returned) < MaxClasses
    /\ \E b \in BaseClasses :
          /\ args' = [op |-> "cluster_resource", base_class |-> b]
          /\ classes' = ClusterResource(classes, b)
    /\ pc' = "returned"
    /\ stack' = <<>>
    /\ loc' = InitLoc
    /\ hist' = [InitHist EXCEPT !.store0 = store, !.secret0 = secret.data]
    /\ err' = ""
    /\ UNCHANGED <<store, secret, ncalls, prom, peer>>

\* lines 217-271 called on a DynamicClassCreator the program keeps
CallCreator ==
    /\ Idle
    /\ Len(classes.returned) < MaxClasses
    /\ \E b \in BaseClasses :
          LET r == CreatorCall(classes.created_classes, classes.made, b)
          IN /\ args' = [op |-> "DynamicClassCreator.__call__", base_class |-> b]
             /\ classes' = [made |-> r.made,
                            created_classes |-> r.created_classes,
                            returned |-> Append(classes.returned,
                                [base |-> b, class |-> r.class, via |-> "creator"])]
    /\ pc' = "returned"
    /\ stack' = <<>>
    /\ loc' = InitLoc
    /\ hist' = [InitHist EXCEPT !.store0 = store, !.secret0 = secret.data]
    /\ err' = ""
    /\ UNCHANGED <<store, secret, ncalls, prom, peer>>

\* what the data collector of the process does: none configured, a collect
\* function that works, or an exception from get_data_collector_dict, from
\* the import of the function, or from the function itself
CollectorConfigs ==
    {"none", "ok", "dict_raises", "import_raises", "collect_raises"}

\* clean_up() of an instance of cluster_resource(Namespace), the namespace "a"
CallCleanUp ==
    /\ Idle
    /\ ncalls < MaxCalls
    /\ \E c \in CollectorConfigs :
          args' = [op |-> "clean_up", name |-> NameA, collector |-> c]
    /\ pc' = "cu_dict"
    /\ stack' = <<>>
    /\ loc' = InitLoc
    /\ hist' = [InitHist EXCEPT !.store0 = store, !.secret0 = secret.data]
    /\ err' = ""
    /\ ncalls' = ncalls + 1
    /\ UNCHANGED <<store, secret, prom, peer, classes>>

\* lines 237-239: get_data_collector_dict() and the test of its result
CuDict ==
    /\ pc = "cu_dict"
    /\ CASE args.collector = "dict_raises" ->
                Goto("cu_warn", [loc EXCEPT !.exc = "Exception"], hist)
         [] args.collector = "none" -> Goto("cu_super", loc, hist)
         [] OTHER -> Goto("cu_collect", loc, hist)
    /\ UNCHANGED <<store, secret, args, ncalls, prom, peer, classes>>

\* lines 240-259: the collect function is imported and called
CuCollect ==
    /\ pc = "cu_collect"
    /\ CASE args.collector = "import_raises" ->
                Goto("cu_warn", [loc EXCEPT !.exc = "ModuleNotFoundError"], hist)
         [] args.collector = "collect_raises" ->
                Goto("cu_warn", [loc EXCEPT !.exc = "Exception", !.collected = TRUE],
                     Step(hist, "collect"))
         [] OTHER ->
                Goto("cu_super", [loc EXCEPT !.collected = TRUE],
                     Step(hist, "collect"))
    /\ UNCHANGED <<store, secret, args, ncalls, prom, peer, classes>>

\* CuWarn with a raise after the warning
CuWarnReraise ==
    /\ pc = "cu_warn"
    /\ Raise(loc.exc, loc, [hist EXCEPT !.logs = @ \cup {"collect_failed"}])
    /\ UNCHANGED <<store, secret, args, ncalls, prom, peer, classes>>

\* lines 260-264: except Exception, a warning
CuWarn ==
    /\ pc = "cu_warn"
    /\ Goto("cu_super", [loc EXCEPT !.exc = ""],
            [hist EXCEPT !.logs = @ \cup {"collect_failed"}])
    /\ UNCHANGED <<store, secret, args, ncalls, prom, peer, classes>>

\* line 265: super().clean_up(), here Namespace.clean_up
CuSuper ==
    /\ pc = "cu_super"
    /\ LET l == [loc EXCEPT !.cleanups = @ + 1]
           h == Step(hist, "clean_up")
       IN IF args.name \in store.ns
          THEN /\ store' = DeleteNamespace(store, args.name)
               /\ Finish(l, [h EXCEPT !.muts = @ \cup
                                {Mut("delete", "ns", Key(args.name, None))}])
          ELSE /\ store' = store
               /\ Finish(l, h)
    /\ UNCHANGED <<secret, args, ncalls, prom, peer, classes>>

InitResource ==
    /\ store \in {EmptyStore, NamespaceStore}
    /\ secret = NoSecret
    /\ prom = InitProm
    /\ pc = "idle"
    /\ stack = <<>>
    /\ args = NoArgs
    /\ loc = InitLoc
    /\ err = ""
    /\ hist = InitHist
    /\ ncalls = 0
    /\ peer = NoPeer
    /\ classes = NoClasses

NextResource ==
    \/ CallClusterResource
    \/ CallCreator
    \/ CallCleanUp
    \/ CuDict
    \/ CuCollect
    \/ CuWarn
    \/ CuSuper

SpecResource == InitResource /\ [][NextResource]_vars

-----------------------------------------------------------------------------
(* create_catalog_source_for_iib_install called on its own, over more      *)
(* index images and more contents of the webhook configuration             *)

\* resource entries of one rule, rules of the configuration
MaxResources == 2
MaxRules == 2

IcspStatusResource == "imagecontentsourcepolicies/status"
WebhookResources == {IcspResource, IcspStatusResource, "pods"}

ResourceLists == UNION {[1..n -> WebhookResources] : n \in 0..MaxResources}
RuleLists == UNION {[1..n -> ResourceLists] : n \in 1..MaxRules}

\* one webhook with up to MaxRules rules, or one rule in each of two webhooks
WebhookContents ==
    {<<rules>> : rules \in RuleLists}
    \cup {<< <<r1>>, <<r2>> >> : r1 \in ResourceLists, r2 \in ResourceLists}

\* "q/i", "q/i/q", "i/q", "qi/q"
IibImages ==
    {<<"q", "/", "i">>, <<"q", "/", "i", "/", "q">>, <<"i", "/", "q">>,
     <<"q", "i", "/", "q">>}

\* what the file given to create_icsp_from_file describes: the rules of an
\* ImageContentSourcePolicy named brew-registry
IcspFiles ==
    {InstalledStore.icsp.repositoryDigestMirrors,
     RepositoryDigestMirrors(<<"q", "/", "i">>)}

\* create_icsp_from_file(icsp_file_path), infra.py 356
CallCreateIcspFromFile ==
    /\ Idle
    /\ ncalls < MaxCalls
    /\ \E f \in IcspFiles :
          args' = [op |-> "create_icsp_from_file", icsp_file |-> f]
    /\ pc' = "icsp_file_deploy"
    /\ stack' = <<>>
    /\ loc' = InitLoc
    /\ hist' = [InitHist EXCEPT !.store0 = store, !.secret0 = secret.data]
    /\ err' = ""
    /\ ncalls' = ncalls + 1
    /\ UNCHANGED <<store, secret, prom, peer, classes>>

\* infra.py 357-359: icsp.deploy() sends one create request, which the API
\* server refuses when the object is there
IcspFromFileDeploy ==
    /\ pc = "icsp_file_deploy"
    /\ IF store.icsp.exists
       THEN /\ store' = store
            /\ Raise("ConflictError", loc, hist)
       ELSE /\ store' = [store EXCEPT
                 !.icsp = [exists |-> TRUE, repositoryDigestMirrors |-> args.icsp_file]]
            /\ Finish(loc, [hist EXCEPT !.muts = @ \cup
                               {Mut("create", "icsp", NoKey)}])
    /\ UNCHANGED <<secret, args, ncalls, prom, peer, classes>>

CallCreateCatalogSource ==
    /\ Idle
    /\ ncalls < MaxCalls
    /\ \E img \in IibImages :
          args' = [op |-> "create_catalog_source_for_iib_install",
                   name |-> CatalogSourceName(NameA),
                   iib_index_image |-> img,
                   brew_token |-> <<"k">>,
                   operator_market_namespace |-> MarketNamespace]
    /\ pc' = "iib_begin"
    /\ stack' = <<>>
    /\ loc' = InitLoc
    /\ hist' = [InitHist EXCEPT !.store0 = store, !.secret0 = secret.data]
    /\ err' = ""
    /\ ncalls' = ncalls + 1
    /\ UNCHANGED <<store, secret, prom, peer, classes>>

InitIib ==
    /\ \E vwc \in {NoWebhookConfig} \cup
                  {[exists |-> TRUE, webhooks |-> w] : w \in WebhookContents},
          icsp \in {NoIcsp, InstalledStore.icsp} :
            store = [EmptyStore EXCEPT !.vwc = vwc, !.icsp = icsp]
    /\ prom = InitProm
    /\ secret \in {NoSecret, ClusterPullSecret}
    /\ pc = "idle"
    /\ stack = <<>>
    /\ args = NoArgs
    /\ loc = InitLoc
    /\ err = ""
    /\ hist = InitHist
    /\ ncalls = 0
    /\ peer = NoPeer
    /\ classes = NoClasses

NextIib ==
    \/ CallCreateIcspFromFile
    \/ IcspFromFileDeploy
    \/ CallCreateCatalogSource
    \/ IibSuspendWebhook
    \/ IibIcsp
    \/ IibRestoreWebhook
    \/ IibSecret
    \/ CusRead
    \/ CusWrite
    \/ IibCatalogSource

SpecIib == InitIib /\ [][NextIib]_vars

-----------------------------------------------------------------------------
(* utils.py: run_command and run_ssh_commands                              *)

MaxCommands == 3

ReturnCodes == {0, 1}

\* what a local command did: it ran and exited, or it could not be started
CommandOutcomes ==
    {[kind |-> "exit", returncode |-> rc, stdout |-> o, stderr |-> e] :
        rc \in ReturnCodes, o \in {"", "o"}, e \in {"", "e"}}
    \cup {[kind |-> "no_such_file", returncode |-> 0, stdout |-> "", stderr |-> ""]}

\* run_command(command, verify_stderr=..., check=...): shell, timeout and
\* capture_output keep their defaults
CallRunCommand ==
    /\ Idle
    /\ ncalls < MaxCalls
    /\ \E vs \in BOOLEAN, chk \in BOOLEAN :
          args' = [op |-> "run_command", verify_stderr |-> vs, check |-> chk]
    /\ pc' = "rc_run"
    /\ stack' = <<>>
    /\ loc' = InitLoc
    /\ hist' = [InitHist EXCEPT !.store0 = store, !.secret0 = secret.data]
    /\ err' = ""
    /\ ncalls' = ncalls + 1
    /\ UNCHANGED <<store, secret, prom, peer, classes>>

\* lines 37-46, subprocess.run: a command that cannot be started raises, and
\* with check=True so does a command that exits with a non-zero code
RcRun ==
    /\ pc = "rc_run"
    /\ \E o \in CommandOutcomes :
          LET l == [loc EXCEPT !.proc = o]
          IN IF o.kind = "no_such_file"
             THEN Raise("FileNotFoundError", l, hist)
             ELSE IF args.check /\ o.returncode # 0
             THEN Raise("CalledProcessError", l, hist)
             ELSE Goto("rc_report", l, hist)
    /\ UNCHANGED <<store, secret, args, ncalls, prom, peer, classes>>

\* lines 47-63
RunCommandResult(proc, verify_stderr) ==
    IF proc.returncode # 0
    THEN <<FALSE, proc.stdout, proc.stderr>>
    ELSE IF proc.stderr # "" /\ verify_stderr
    THEN <<FALSE, proc.stdout, proc.stderr>>
    ELSE <<TRUE, proc.stdout, proc.stderr>>

RcReport ==
    /\ pc = "rc_report"
    /\ LET result == RunCommandResult(loc.proc, args.verify_stderr)
       IN Finish([loc EXCEPT !.ret = result],
                 IF result[1] THEN hist
                 ELSE [hist EXCEPT !.logs = @ \cup {"failed_to_run"}])
    /\ UNCHANGED <<store, secret, args, ncalls, prom, peer, classes>>

\* Python values whose type the code tests: a string and a list
Str(w) == [t |-> "str", s |-> w, v |-> <<>>]
List(xs) == [t |-> "list", s |-> "", v |-> xs]
IsList(x) == x.t = "list"

SshCommand(w) == List(<<Str(w)>>)
SshCommands == {SshCommand("a"), SshCommand("b")}

\* the commands argument: a list of command lists, a single command given
\* as a flat list of words, or an empty list
SshCommandArgs ==
    {List(cs) : cs \in UNION {[1..n -> SshCommands] : n \in 1..MaxCommands}}
    \cup {SshCommand("a"), List(<<Str("a"), Str("b")>>)}
    \cup {List(<<>>)}

SshOutputs == {"x", "y"}

CallRunSshCommands ==
    /\ Idle
    /\ ncalls < MaxCalls
    /\ \E c \in SshCommandArgs, chk \in BOOLEAN :
          args' = [op |-> "run_ssh_commands", commands |-> c, check_rc |-> chk]
    /\ pc' = "ssh_begin"
    /\ stack' = <<>>
    /\ loc' = InitLoc
    /\ hist' = [InitHist EXCEPT !.store0 = store, !.secret0 = secret.data]
    /\ err' = ""
    /\ ncalls' = ncalls + 1
    /\ UNCHANGED <<store, secret, prom, peer, classes>>

\* lines 94-96: commands[0] of an empty list raises IndexError; a list whose
\* first element is not a list is one command; then the session is opened
SshBegin ==
    /\ pc = "ssh_begin"
    /\ IF args.commands.v = <<>>
       THEN Raise("IndexError", loc, hist)
       ELSE Goto("ssh_cmd",
                 [loc EXCEPT
                    !.ret = <<>>,
                    !.commands = IF IsList(args.commands.v[1])
                                 THEN args.commands.v
                                 ELSE <<args.commands>>,
                    !.sessions = @ + 1,
                    !.session_open = TRUE],
                 hist)
    /\ UNCHANGED <<store, secret, args, ncalls, prom, peer, classes>>

\* SshRunCmd with the return code never looked at
SshRunCmdNoCheck ==
    /\ pc = "ssh_cmd"
    /\ Len(loc.ran) < Len(loc.commands)
    /\ \E rc \in ReturnCodes, out \in SshOutputs :
          LET cmd == loc.commands[Len(loc.ran) + 1]
              l == [loc EXCEPT !.ran = Append(@, [cmd |-> cmd, rc |-> rc, out |-> out,
                                                  session |-> loc.sessions])]
          IN Goto("ssh_cmd", [l EXCEPT !.ret = Append(@, out)], hist)
    /\ UNCHANGED <<store, secret, args, ncalls, prom, peer, classes>>

\* lines 97-105: one turn of the for loop; an exception leaves the with
\* block, which closes the session
SshRunCmd ==
    /\ pc = "ssh_cmd"
    /\ Len(loc.ran) < Len(loc.commands)
    /\ \E rc \in ReturnCodes, out \in SshOutputs :
          LET cmd == loc.commands[Len(loc.ran) + 1]
              l == [loc EXCEPT !.ran = Append(@, [cmd |-> cmd, rc |-> rc, out |-> out,
                                                  session |-> loc.sessions])]
          IN IF rc # 0 /\ args.check_rc
             THEN Raise("CommandExecFailed", [l EXCEPT !.session_open = FALSE], hist)
             ELSE Goto("ssh_cmd", [l EXCEPT !.ret = Append(@, out)], hist)
    /\ UNCHANGED <<store, secret, args, ncalls, prom, peer, classes>>

\* lines 96, 107: the loop is over, the with block closes the session, the
\* results are returned
SshReturn ==
    /\ pc = "ssh_cmd"
    /\ Len(loc.ran) = Len(loc.commands)
    /\ Finish([loc EXCEPT !.session_open = FALSE], hist)
    /\ UNCHANGED <<store, secret, args, ncalls, prom, peer, classes>>

InitUtils ==
    /\ store = EmptyStore
    /\ prom = InitProm
    /\ secret = NoSecret
    /\ pc = "idle"
    /\ stack = <<>>
    /\ args = NoArgs
    /\ loc = InitLoc
    /\ err = ""
    /\ hist = InitHist
    /\ ncalls = 0
    /\ peer = NoPeer
    /\ classes = NoClasses

NextUtils ==
    \/ CallRunCommand
    \/ RcRun
    \/ RcReport
    \/ CallRunSshCommands
    \/ SshBegin
    \/ SshRunCmd
    \/ SshReturn

SpecUtils == InitUtils /\ [][NextUtils]_vars

-----------------------------------------------------------------------------
(* Properties of the orchestration                                         *)

Installing == args.op = "install_operator"
Uninstalling == args.op = "uninstall_operator"

InstalledSubscription == Key(args.name, OperatorNamespace)

Present(m) ==
    CASE m.kind = "ns" -> m.key.name \in store.ns
      [] m.kind = "og" -> m.key \in store.og
      [] m.kind = "sub" -> m.key \in DOMAIN store.sub
      [] OTHER -> TRUE

IsPrefix(s, t) == Len(s) <= Len(t) /\ \A i \in 1..Len(s) : s[i] = t[i]

InTrace(tag) == \E i \in 1..Len(hist.trace) : hist.trace[i] = tag

\* C4: install_operator returns normally only after it observed an
\* install-plan reference on the subscription, that install plan Complete, an
\* installedCSV name, and the CSV of that name in the subscription's
\* namespace Succeeded.
C4_ReturnsOnlyWhenCsvSucceeded ==
    (Installing /\ pc = "returned") =>
        /\ Truthy(hist.obs.ipref)
        /\ hist.obs.ipKey = Key(hist.obs.ipref, InstalledSubscription.ns)
        /\ hist.obs.ipStatus = "Complete"
        /\ Truthy(hist.obs.icsv)
        /\ hist.obs.csvKey = Key(hist.obs.icsv, InstalledSubscription.ns)
        /\ hist.obs.csvStatus = "Succeeded"

\* an install that returned after more than one read of the CSV status
C4_Witness ==
    /\ Installing /\ pc = "returned"
    /\ hist.last.kind = "status" /\ hist.last.probes >= 2

\* C5: when a wait of install_operator times out, the call fails with the
\* Timeout error, the timed-out wait is its last step, it deleted nothing,
\* and every Namespace, OperatorGroup and Subscription it created is still
\* in the store.
C5_TimeoutLeavesObjects ==
    (Installing /\ hist.last.outcome = "timeout") =>
        /\ pc = "raised" /\ err = "TimeoutExpiredError"
        /\ hist.trace[Len(hist.trace)] \in
              {"poll_install_plan_ref", "poll_install_plan",
               "poll_installed_csv", "poll_csv"}
        /\ \A m \in hist.muts : m.verb # "delete"
        /\ \A m \in hist.muts : m.verb = "create" => Present(m)

\* the install plan never reached Complete within the caller's deadline, and
\* the call had created its namespace, operator group and subscription
C5_Witness ==
    /\ Installing /\ pc = "raised" /\ err = "TimeoutExpiredError"
    /\ hist.last.kind = "status" /\ loc.tkind = "ip" /\ loc.D > 0
    /\ {m.kind : m \in hist.muts} = {"ns", "og", "sub"}

\* C6: install_operator with an index image and no brew_token fails with
\* ValueError on its first step, and when it has failed the store and the
\* pull-secret are what they were when the call began.
C6_NoTokenFailsBeforeAnyMutation ==
    (Installing /\ Truthy(args.iib_index_image) /\ ~Truthy(args.brew_token)) =>
        /\ pc \in {"io_check", "raised"}
        /\ pc = "raised" =>
              /\ err = "ValueError"
              /\ hist.muts = {}
              /\ store = hist.store0
              /\ secret.data = hist.secret0

C6_Witness ==
    /\ Installing /\ Truthy(args.iib_index_image) /\ ~Truthy(args.brew_token)
    /\ pc = "raised" /\ err = "ValueError"
    /\ store = InstalledStore

NeverInstalled(st) ==
    /\ InstalledSubscription \notin DOMAIN st.sub
    /\ InstalledSubscription \notin st.og

\* C7: uninstall_operator on an operator that was never installed (no
\* subscription and no operator group of that name) returns without error
\* and leaves the store as it was when the call began.
C7_UninstallOfAbsentIsNoOp ==
    (Uninstalling /\ NeverInstalled(hist.store0) /\ pc \in {"returned", "raised"}) =>
        /\ pc = "returned"
        /\ store = hist.store0

InstallOrder ==
    <<"namespace", "operator_group", "subscription", "poll_install_plan_ref",
      "poll_install_plan", "poll_installed_csv", "resolve_csv", "poll_csv">>

\* C10: the steps of install_operator follow one fixed order, none revisited:
\* namespaces, operator group, subscription, polls for the install-plan
\* reference, polls of the install plan (its reference observed), polls for
\* installedCSV (the install plan observed Complete), the CSV resolved by
\* name, polls of the CSV status.
C10_StepsInFixedOrder ==
    Installing =>
        /\ IsPrefix(hist.trace, InstallOrder)
        /\ InTrace("operator_group") =>
              \A i \in 1..Len(args.target_namespaces) :
                  args.target_namespaces[i] \in store.ns
        /\ InTrace("poll_install_plan_ref") =>
              InstalledSubscription \in DOMAIN store.sub
        /\ InTrace("poll_install_plan") => Truthy(hist.obs.ipref)
        /\ InTrace("poll_installed_csv") => hist.obs.ipStatus = "Complete"
        /\ InTrace("poll_csv") => hist.obs.csvResolved # NoKey

C10_Witness ==
    /\ Installing /\ hist.trace = InstallOrder
    /\ args.target_namespaces # None /\ pc = "returned"

-----------------------------------------------------------------------------
(* Properties of the polling waits, checked under SpecWaits                *)

\* the waits the library itself polls (wait_for_status, wait_deleted) aside
SamplerKinds == {"ipref", "icsv", "alert"}

Polling == pc \in {"wip_poll", "wcs_poll", "alert_poll"}

\* C1: a polling wait whose probe never gives a satisfying value ends with
\* Timeout, not sooner than its deadline D and less than one interval I
\* after it; while it polls it is never at D + I or later.
C1_UnsatisfiedWaitTimesOutWithinInterval ==
    /\ (hist.last.kind \in SamplerKinds /\ ~hist.last.sat) =>
          /\ hist.last.outcome = "timeout"
          /\ pc = "raised"
          /\ err = "TimeoutExpiredError"
          /\ hist.last.D <= hist.last.elapsed
          /\ hist.last.elapsed <= hist.last.D + hist.last.I
    /\ (Polling /\ loc.kind \in SamplerKinds) => loc.elapsed < loc.D + loc.I

\* a wait for the install plan gave up between its deadline and D + I,
\* after more than one probe
C1_Witness ==
    /\ args.op = "wait_for_install_plan_from_subscription"
    /\ pc = "raised"
    /\ hist.last.kind = "ipref"
    /\ hist.last.outcome = "timeout"
    /\ hist.last.probes = 3
    /\ hist.last.elapsed > hist.last.D

\* what the wait of the given kind hands back for the sample it stopped on
Returned(kind) ==
    CASE kind = "ipref" -> loc.install_plan = Key(loc.sample, loc.subscription.ns)
      [] kind = "icsv" -> loc.csv_name = loc.sample
      [] kind = "alert" -> loc.ret = loc.sample

\* C2: when the probe first satisfies the caller on attempt N, the wait ends
\* there: the probe has been called exactly N times, and what the wait
\* returns is attempt N's value or the object named by it.
C2_ReturnsNthValueAfterNProbes ==
    (loc.kind \in SamplerKinds /\ loc.firstSat # 0) =>
        /\ ~Polling
        /\ loc.probes = loc.firstSat
        /\ loc.sat
        /\ hist.last.kind = loc.kind
        /\ hist.last.outcome = "value"
        /\ hist.last.probes = loc.firstSat
        /\ Returned(loc.kind)

\* an alert wait returned on its third poll
C2_Witness ==
    /\ args.op = "wait_for_alert_by_state_sampler"
    /\ pc = "returned"
    /\ loc.firstSat = 3
    /\ loc.probes = 3
    /\ loc.ret # <<>>

\* the entries of a response with the wanted name and state
MatchingEntries(response, alert_name, state) ==
    LET Wanted(a) == a.alertname = alert_name /\ a.state = state
    IN SelectSeq(response, Wanted)

AlertWait == args.op = "wait_for_alert_by_state_sampler"

\* the sleeps made so far: one after each poll but the one the wait ended on
PollsSlept == IF Polling THEN loc.probes ELSE loc.probes - 1

\* C8: an alert wait returns the matching entries of the first poll that has
\* any, and the time between two polls is the scrape interval the Prometheus
\* object discovered when it was constructed.
C8_AlertWaitReturnsFirstMatchingPoll ==
    AlertWait =>
        /\ (loc.kind = "alert" /\ loc.probes >= 2) =>
              /\ loc.gap = GetScrapeInterval(prom.discovered)
              /\ loc.elapsed = PollsSlept * GetScrapeInterval(prom.discovered)
        /\ pc = "returned" =>
              /\ loc.ret = MatchingEntries(prom.polled, args.alert_name, args.state)
              /\ loc.ret # <<>>
              /\ loc.probes = loc.firstSat

\* an alert wait returned two entries on its second poll, one discovered
\* interval after the first, the scrape configuration having changed since
C8_Witness ==
    /\ AlertWait
    /\ pc = "returned"
    /\ loc.probes = 2
    /\ Len(loc.ret) = 2
    /\ loc.gap = 2
    /\ prom.targets # prom.discovered

-----------------------------------------------------------------------------
(* Properties of create_update_secret, checked under SpecSecret            *)

AuthsOf(data) == JsonLoadsAuths(Base64Decode(data))

Has(d, k, v) == k \in DictKeys(d) /\ DictGet(d, k) = v

UpdatedSecret ==
    /\ args.op = "create_update_secret"
    /\ pc = "returned"
    /\ hist.secret0 # <<>>

\* C9 as stated: after create_update_secret on an existing secret, every
\* key the secret had is present with its previous value and every supplied
\* key is present with the supplied value.
C9_EveryOldValueAndEveryNewValue ==
    UpdatedSecret =>
        LET old == AuthsOf(hist.secret0)
            now == AuthsOf(secret.data)
        IN /\ \A k \in DictKeys(old) : Has(now, k, DictGet(old, k))
           /\ \A k \in DictKeys(args.secret_data) :
                 Has(now, k, DictGet(args.secret_data, k))

\* C9 amended: every supplied key is present with the supplied value, every
\* key the secret had and the call did not supply is present with its
\* previous value, and the secret has no other key.
C9_UnionWithSuppliedValuesWinning ==
    UpdatedSecret =>
        LET old == AuthsOf(hist.secret0)
            new == args.secret_data
            now == AuthsOf(secret.data)
        IN /\ \A k \in DictKeys(new) : Has(now, k, DictGet(new, k))
           /\ \A k \in DictKeys(old) \ DictKeys(new) : Has(now, k, DictGet(old, k))
           /\ DictKeys(now) = DictKeys(old) \cup DictKeys(new)

\* a secret holding two registries was updated with a new value for one
C9_Witness ==
    /\ UpdatedSecret
    /\ Len(AuthsOf(hist.secret0)) = 2
    /\ Len(args.secret_data) = 1
    /\ AuthsOf(secret.data) # AuthsOf(hist.secret0)
    /\ Len(AuthsOf(secret.data)) = 2

-----------------------------------------------------------------------------
(* Progress of install_operator, checked under LiveSpec                    *)

InstallStarted == Installing /\ pc = "wip_enter"

InstallSucceeded ==
    /\ Installing
    /\ pc = "returned"
    /\ hist.obs.csvStatus = "Succeeded"

\* what the reconciler has not done to the subscription of the call
IpRefMissing == SubscriptionStatus(InstalledSubscription).installplan = None

IpNotComplete ==
    LET k == InstalledSubscription
    IN /\ ~IpRefMissing
       /\ StatusOf("ip", Key(SubscriptionStatus(k).installplan, k.ns)) # "Complete"

CsvNameMissing == SubscriptionStatus(InstalledSubscription).installedCSV = None

CsvAbsent ==
    LET k == InstalledSubscription
    IN /\ ~CsvNameMissing
       /\ Key(SubscriptionStatus(k).installedCSV, k.ns) \notin DOMAIN store.csv

CsvNotSucceeded ==
    LET k == InstalledSubscription
    IN /\ ~CsvNameMissing
       /\ StatusOf("csv", Key(SubscriptionStatus(k).installedCSV, k.ns)) # "Succeeded"

\* a wait of the call reached its deadline with the reconciler's part undone,
\* or installedCSV names a CSV that does not exist
DeadlineMissed ==
    /\ Installing
    /\ pc = "raised"
    /\ \/ /\ err = "TimeoutExpiredError"
          /\ hist.last.outcome = "timeout"
          /\ hist.last.elapsed >= hist.last.D
          /\ \/ hist.last.kind = "ipref" /\ IpRefMissing
             \/ hist.last.kind = "icsv" /\ CsvNameMissing
             \/ hist.last.kind = "status" /\ loc.tkind = "ip" /\ IpNotComplete
             \/ hist.last.kind = "status" /\ loc.tkind = "csv" /\ CsvNotSucceeded
       \/ err = "ResourceNotFoundError" /\ CsvAbsent

\* C3: once install_operator has created the subscription, it eventually
\* returns without error having last observed the CSV as Succeeded, unless
\* the reconciler left one of its four steps undone at the deadline of the
\* wait for it (or named a CSV that does not exist).
C3_InstallReturnsWhenReconcilerMeetsDeadlines ==
    InstallStarted ~> (InstallSucceeded \/ DeadlineMissed)

\* the install returned after the reconciler did each step late enough for
\* the install-plan reference and the CSV status to need a second poll
C3_Witness ==
    /\ InstallSucceeded
    /\ hist.last.kind = "status"
    /\ hist.last.probes = 2
    /\ hist.obs.ipStatus = "Complete"
    /\ hist.obs.icsv = SubscriptionStatus(InstalledSubscription).installedCSV

-----------------------------------------------------------------------------
(* Properties of the alternate-registry pre-step, checked under Spec       *)

IibInstall ==
    /\ Installing
    /\ Truthy(args.iib_index_image)
    /\ Truthy(args.brew_token)

InIcspStep == pc \in {"iib_icsp", "iib_restore"}

\* C11: on a cluster that has the validating webhook configuration, outside
\* the ICSP step the configuration is what it was when the call began: the
\* suspended rule is back whether the ICSP write succeeded or raised.
C11_WebhookRulesRestoredAfterIcspStep ==
    (Installing /\ hist.store0.vwc.exists /\ ~InIcspStep) =>
        store.vwc = hist.store0.vwc

\* the ICSP write raised while the rule was suspended, and the rule is back
C11_Witness ==
    /\ IibInstall
    /\ pc = "raised"
    /\ err = "ApiException"
    /\ Mut("patch", "vwc", NoKey) \in hist.muts
    /\ Mut("restore", "vwc", NoKey) \in hist.muts
    /\ ManipulateWebhooks(hist.store0.vwc.webhooks) # hist.store0.vwc.webhooks
    /\ store.vwc = hist.store0.vwc

-----------------------------------------------------------------------------
(* Properties of uninstall_operator, checked under Spec                    *)

UninstallOrder ==
    <<"subscription", "operator_group", "operators", "wait_csv_deleted">>

\* installedCSV of the call's subscription as it was when the call began
InstalledCsvAtCall ==
    IF InstalledSubscription \in DOMAIN hist.store0.sub
    THEN hist.store0.sub[InstalledSubscription].installedCSV
    ELSE None

\* C12: uninstall_operator goes through its steps in one order: the
\* installedCSV name is the one the subscription had before it was deleted,
\* the subscription is gone before the operator group is touched, the group
\* is gone before any namespace is deleted, the wait for the CSV comes last,
\* and it is made if and only if a CSV name was recorded.
C12_UninstallStepsInOrder ==
    Uninstalling =>
        /\ IsPrefix(hist.trace, UninstallOrder)
        /\ pc = "un_sub" => hist.muts = {} /\ store = hist.store0
        /\ InTrace("subscription") =>
              /\ loc.csv_name = InstalledCsvAtCall
              /\ InstalledSubscription \notin DOMAIN store.sub
        /\ pc = "un_og" =>
              /\ store.og = hist.store0.og
              /\ store.ns = hist.store0.ns
        /\ InTrace("operator_group") => InstalledSubscription \notin store.og
        /\ pc = "un_ops" => store.ns = hist.store0.ns
        /\ pc \in {"un_sub", "un_og", "un_ops", "un_op", "un_ns_wait", "un_csv"} =>
              ~InTrace("wait_csv_deleted")
        /\ pc \in {"wd_poll", "returned", "raised"} =>
              /\ InTrace("operators")
              /\ InTrace("wait_csv_deleted") <=> Truthy(loc.csv_name)

\* a full uninstall: subscription and group deleted, a namespace deleted, the
\* CSV waited for
C12_Witness ==
    /\ Uninstalling
    /\ pc = "returned"
    /\ hist.trace = UninstallOrder
    /\ Mut("delete", "sub", InstalledSubscription) \in hist.muts
    /\ Mut("delete", "og", InstalledSubscription) \in hist.muts
    /\ store.ns # hist.store0.ns

RecordedCsv == Key(loc.csv_name, InstalledSubscription.ns)

\* C13: when uninstall_operator recorded a CSV name, it returns only having
\* seen that CSV absent from the subscription's namespace; it raises only
\* with Timeout, the deadline passed and the CSV still there, and then the
\* subscription and the operator group are still deleted.
C13_ReturnsOnlyWhenCsvGone ==
    (Uninstalling /\ InTrace("subscription") /\ Truthy(loc.csv_name)) =>
        /\ pc = "returned" =>
              /\ hist.obs.csvGone = RecordedCsv
              /\ RecordedCsv \notin DOMAIN store.csv
        /\ pc = "raised" =>
              /\ err = "TimeoutExpiredError"
              /\ hist.last.kind = "deleted"
              /\ hist.last.outcome = "timeout"
              /\ hist.last.elapsed >= args.timeout
              /\ RecordedCsv \in DOMAIN store.csv
              /\ InstalledSubscription \notin DOMAIN store.sub
              /\ InstalledSubscription \notin store.og

\* the CSV outlived the timeout after the subscription and the group had
\* been deleted
C13_Witness ==
    /\ Uninstalling
    /\ pc = "raised"
    /\ Truthy(loc.csv_name)
    /\ hist.last.probes >= 2
    /\ Mut("delete", "sub", InstalledSubscription) \in hist.muts
    /\ Mut("delete", "og", InstalledSubscription) \in hist.muts

\* s.split(".")[-1]
RECURSIVE SplitLast(_, _)
SplitLast(s, sep) ==
    IF \E i \in 1..Len(s) : s[i] = sep
    THEN SplitLast(Tail(s), sep)
    ELSE s

\* the <namespace> part of an Operator record named <name>.<namespace>
RecordNamespace(o) == SplitLast(o, ".")

\* the loop over the Operator records has begun and is not over
InOperatorsLoop == pc \in {"un_op", "un_ns_wait"}

\* C14: once uninstall_operator has scanned the Operator records, the
\* namespace of every record whose name starts with name is gone, and when
\* no record's name starts with name the namespaces are those of the call's
\* beginning.
C14_NamespaceOfEveryMatchingRecordDeleted ==
    (Uninstalling /\ InTrace("operators") /\ ~InOperatorsLoop) =>
        LET matches == {o \in hist.store0.op : StartsWith(o, args.name)}
        IN /\ \A o \in matches : RecordNamespace(o) \notin store.ns
           /\ matches = {} => store.ns = hist.store0.ns

IcspStepDone ==
    /\ IibInstall
    /\ \/ Mut("create", "icsp", NoKey) \in hist.muts
       \/ Mut("patch", "icsp", NoKey) \in hist.muts

Rules(mirrors) == {mirrors[i] : i \in 1..Len(mirrors)}

\* C15: after the ICSP step the ImageContentSourcePolicy brew-registry exists
\* and its repository-digest-mirror rules include the rule of the image's
\* source registry and the rule of registry.redhat.io, whether it was
\* created or was already there and patched.
C15_IcspHoldsTheNewRules ==
    IcspStepDone =>
        /\ store.icsp.exists
        /\ Rules(RepositoryDigestMirrors(args.iib_index_image))
              \subseteq Rules(store.icsp.repositoryDigestMirrors)

-----------------------------------------------------------------------------
(* Properties of Prometheus, checked under SpecWaits                       *)

FiringWait == args.op = "wait_for_firing_alert_sampler"

\* C16: wait_for_firing_alert_sampler(alert_name, timeout) gives up once the
\* timeout it was given has elapsed: it is never still polling, and never
\* times out, a full interval or more after that timeout.
C16_FiringWaitHonoursItsTimeout ==
    FiringWait =>
        /\ pc = "alert_poll" => loc.elapsed < args.timeout + loc.I
        /\ hist.last.outcome = "timeout" =>
              hist.last.elapsed < args.timeout + hist.last.I

UnitSeconds(c) ==
    CASE c = "s" -> 1 [] c = "m" -> 60 [] c = "h" -> 60 * 60 [] OTHER -> 0

\* the seconds of a Prometheus duration such as 30s, 1m or 1m30s
RECURSIVE DurationSeconds(_, _, _)
DurationSeconds(s, number, total) ==
    IF s = <<>> THEN total
    ELSE IF IsDigit(Head(s))
         THEN DurationSeconds(Tail(s), 10 * number + DigitValue(Head(s)), total)
         ELSE DurationSeconds(Tail(s), 0, total + number * UnitSeconds(Head(s)))

\* the scrape interval of the first prometheus-k8s target, 30 without one
ScrapeIntervalOf(targets) ==
    LET own == {i \in 1..Len(targets) :
                   ~targets[i].empty /\ targets[i].job = PrometheusJob}
        first == CHOOSE i \in own : \A j \in own : i <= j
    IN IF own = {} THEN 30
       ELSE DurationSeconds(targets[first].scrapeInterval, 0, 0)

\* C17: the poll interval of a Prometheus object is the scrape interval of
\* the first prometheus-k8s target of the response read at construction, or
\* 30 seconds without such a target; the targets are queried once, and every
\* alert or query wait polls at that interval.
C17_IntervalDiscoveredOnceAtConstruction ==
    prom.constructed =>
        /\ prom.scrape_interval = ScrapeIntervalOf(prom.discovered)
        /\ prom.target_queries = 1
        /\ loc.kind \in {"alert", "query"} => loc.I = prom.scrape_interval

QueryWait == args.op = "query_sampler"

\* C18: query_sampler polls on while the response's status is not success;
\* it returns the data.result of the first response with status success;
\* when the deadline passes first it logs the last response, which is not a
\* success, and raises the timeout.
C18_QuerySamplerReturnsFirstSuccess ==
    QueryWait =>
        /\ (pc = "query_poll" /\ loc.probes > 0) =>
              /\ loc.sample.status # "success"
              /\ loc.firstSat = 0
        /\ pc = "returned" =>
              /\ loc.sample = prom.query
              /\ loc.sample.status = "success"
              /\ loc.probes = loc.firstSat
              /\ loc.sample.hasData => loc.ret = loc.sample.result
        /\ pc = "raised" =>
              /\ err = "TimeoutExpiredError"
              /\ hist.last.elapsed >= args.timeout
              /\ loc.firstSat = 0
              /\ loc.logged = <<prom.query>>
              /\ prom.query.status # "success"

\* the deadline passed on the third poll, the response having changed from
\* one error to another: the one logged is the last
C18_Witness ==
    /\ QueryWait
    /\ pc = "raised"
    /\ loc.probes = 3
    /\ loc.logged = <<Response("error", "bad_data", FALSE, <<>>)>>

\* C20: get_alerts_by_state returns the entries of the response it has just
\* requested whose alertname and state are the ones asked for, in the
\* response's order, the empty list when there are none.
C20_AlertsByStateFiltersFreshResponse ==
    (args.op = "get_alerts_by_state" /\ pc = "returned") =>
        /\ prom.polled = prom.alerts
        /\ loc.ret = MatchingEntries(prom.alerts, args.alert_name, args.state)

\* a second call, on a response that changed after the call began, returned
\* two of its three entries
C20_Witness ==
    /\ args.op = "get_alerts_by_state"
    /\ pc = "returned"
    /\ ncalls = 2
    /\ Len(prom.alerts) = 3
    /\ Len(loc.ret) = 2

-----------------------------------------------------------------------------
(* Resolution of the CSV by install_operator, checked under Spec           *)

NamedCsv == Key(hist.obs.icsv, InstalledSubscription.ns)

\* C19: the CSV is resolved by the installedCSV name observed on the
\* subscription, in the subscription's namespace; when no such CSV exists at
\* that moment the call fails with ResourceNotFoundError and the CSV status
\* is never polled; when installedCSV does not appear within the internal
\* deadline the call fails with the timeout, nothing having been resolved.
C19_CsvResolvedByNameOrNotFound ==
    Installing =>
        /\ InTrace("resolve_csv") =>
              /\ Truthy(hist.obs.icsv)
              /\ loc.csv_name = hist.obs.icsv
        /\ InTrace("poll_csv") =>
              /\ hist.obs.csvResolved = NamedCsv
              /\ loc.target = NamedCsv
        /\ (pc = "raised" /\ err = "ResourceNotFoundError") =>
              /\ InTrace("resolve_csv")
              /\ NamedCsv \notin DOMAIN store.csv
              /\ ~InTrace("poll_csv")
              /\ hist.obs.csvStatus = ""
        /\ (pc = "raised" /\ InTrace("poll_installed_csv")
                          /\ ~InTrace("resolve_csv")) =>
              /\ err = "TimeoutExpiredError"
              /\ hist.last.kind = "icsv"
              /\ hist.last.outcome = "timeout"
              /\ hist.last.elapsed >= InstalledCsvTimeout
              /\ hist.last.elapsed <= InstalledCsvTimeout + InstalledCsvSleep
              /\ CsvNameMissing
        /\ (pc = "ws_poll" /\ loc.tkind = "csv" /\ loc.probes = 0) =>
              NamedCsv \in DOMAIN store.csv

\* installedCSV appeared on a later poll and named a CSV that was not there
C19_Witness ==
    /\ Installing
    /\ pc = "raised"
    /\ err = "ResourceNotFoundError"
    /\ hist.last.kind = "icsv"
    /\ hist.last.probes >= 2
    /\ CsvAbsent

-----------------------------------------------------------------------------
(* Properties of the namespace step of install_operator, checked under Spec *)

\* the namespaces the step is to provide: the target namespaces, or without
\* any the operator namespace
WantedNamespaces ==
    IF Truthy(args.target_namespaces)
    THEN {args.target_namespaces[i] : i \in 1..Len(args.target_namespaces)}
    ELSE {OperatorNamespace}

NamespaceStepDone == Installing /\ InTrace("namespace") /\ pc # "io_ns"

\* C21: after the namespace step of install_operator every target namespace
\* (without target namespaces, the operator namespace) exists; the step
\* created the missing ones and nothing else, and a namespace that was there
\* when the call began is still there, with no write made to it.
C21_NamespaceStepCreatesOnlyTheMissing ==
    NamespaceStepDone =>
        /\ WantedNamespaces \subseteq store.ns
        /\ store.ns = hist.store0.ns \cup WantedNamespaces
        /\ \A m \in hist.muts : m.kind = "ns" =>
              /\ m.verb = "create"
              /\ m.key.name \in WantedNamespaces \ hist.store0.ns
        /\ pc = "io_og" =>
              /\ store.og = hist.store0.og
              /\ store.sub = hist.store0.sub
              /\ store.ip = hist.store0.ip
              /\ store.csv = hist.store0.csv

\* of two target namespaces the one that existed was passed over and the
\* other created
C21_Witness ==
    /\ Installing
    /\ pc = "io_og"
    /\ args.target_namespaces = <<NameA, NameT>>
    /\ NameA \in hist.store0.ns
    /\ {m \in hist.muts : m.kind = "ns"} = {Mut("create", "ns", Key(NameT, None))}
    /\ store.ns = {NameA, NameT}

\* C22: when install_operator comes to create the operator group or the
\* subscription, the namespace it creates them in (operator_namespace, by
\* default the operator's name) exists in the store, whatever the
\* target_namespaces and operator_namespace arguments are.
C22_OperatorNamespaceExistsWhenUsed ==
    (Installing /\ pc \in {"io_og", "io_sub"}) => OperatorNamespace \in store.ns

-----------------------------------------------------------------------------
(* Deadlines of the waits of install_operator, checked under Spec          *)

\* C23: the timeout given to install_operator is the deadline of the wait
\* for the install plan to complete and of no other wait: the wait for the
\* install-plan reference runs with 5 minutes and 30 seconds between polls,
\* the wait for the CSV to succeed with 10 minutes.
C23_CallerTimeoutBoundsInstallPlanWaitOnly ==
    Installing =>
        /\ loc.kind = "ipref" => loc.D = 5 * 60 /\ loc.I = 30
        /\ (loc.kind = "status" /\ loc.tkind = "ip") => loc.D = args.timeout
        /\ (loc.kind = "status" /\ loc.tkind = "csv") => loc.D = 10 * 60
        /\ hist.last.kind = "ipref" => hist.last.D = 5 * 60 /\ hist.last.I = 30

\* an install called with timeout 0 returned after it polled the CSV status
\* more than once, under a deadline of 10 minutes
C23_Witness ==
    /\ Installing
    /\ pc = "returned"
    /\ args.timeout = 0
    /\ hist.obs.ipStatus = "Complete"
    /\ hist.last.kind = "status"
    /\ hist.last.D = 10 * 60
    /\ hist.last.probes >= 2

-----------------------------------------------------------------------------
(* Configuration errors of install_operator, checked under Spec            *)

NoCatalog == ~Truthy(args.iib_index_image) /\ ~Truthy(args.source)

\* C24: install_operator called with neither an index image nor a catalog
\* source name fails with ValueError on its first step: when it has failed
\* it has written nothing, and the namespaces, operator groups,
\* subscriptions and the rest of the store are those of the call's beginning.
C24_NoCatalogFailsBeforeAnyMutation ==
    (Installing /\ NoCatalog) =>
        /\ pc \in {"io_check", "raised"}
        /\ hist.muts = {}
        /\ hist.trace = <<>>
        /\ store = hist.store0
        /\ secret.data = hist.secret0
        /\ pc = "raised" => err = "ValueError"

\* the call failed on the empty cluster, where its namespace step would have
\* created the operator's namespace
C24_Witness ==
    /\ Installing /\ NoCatalog
    /\ pc = "raised" /\ err = "ValueError"
    /\ store = EmptyStore
    /\ OperatorNamespace \notin store.ns

-----------------------------------------------------------------------------
(* Reads and writes of status, checked under SpecWaits                     *)

\* what the probe of the wait in progress reads from the remote side now
CurrentValue ==
    CASE loc.kind = "ipref" -> SubscriptionStatus(loc.subscription).installplan
      [] loc.kind = "icsv" -> SubscriptionStatus(loc.subscription).installedCSV
      [] loc.kind = "status" -> StatusOf(loc.tkind, loc.target)
      [] loc.kind = "alert" ->
            MatchingEntries(prom.alerts, args.alert_name, AlertState)
      [] loc.kind = "deleted" -> loc.target \in DOMAIN store.csv
      [] OTHER -> prom.query

ThreadMoved == pc' # pc \/ loc' # loc \/ hist' # hist

\* the objects of f that g still has have in g the status they have in f
SameStatus(f, g) == \A k \in DOMAIN f \cap DOMAIN g : f[k] = g[k]

\* the step wrote no status: objects keep theirs, and the only new object
\* with a status is a subscription whose status is empty
StatusKept ==
    /\ SameStatus(store.sub, store'.sub)
    /\ SameStatus(store.ip, store'.ip)
    /\ SameStatus(store.csv, store'.csv)
    /\ \A k \in DOMAIN store'.sub \ DOMAIN store.sub :
          store'.sub[k] = [installplan |-> None, installedCSV |-> None]
    /\ DOMAIN store'.ip \subseteq DOMAIN store.ip
    /\ DOMAIN store'.csv \subseteq DOMAIN store.csv
    /\ prom'.alerts = prom.alerts

ProbeMade == loc'.probes = loc.probes + 1

\* C25: no step of a call writes the status of a remote object, and the
\* value of every probe (install-plan reference, installedCSV, install-plan
\* status, CSV status, alert list) is the one the remote side holds when the
\* probe is made, so that a change made between two polls is in the value of
\* the second.
C25_ProbesReadTheRemoteValue ==
    [][/\ ThreadMoved => StatusKept
       /\ ProbeMade => loc'.sample = CurrentValue]_vars

\* the CSV went from Installing to Succeeded between two polls of its status,
\* the install plan having been seen Complete
C25_Witness ==
    /\ args.op = "wait_for_operator_install"
    /\ pc = "returned"
    /\ hist.obs.ipStatus = "Complete"
    /\ hist.last.kind = "status"
    /\ hist.last.probes >= 2
    /\ loc.sample = "Succeeded"

-----------------------------------------------------------------------------
(* Properties of two concurrent create_update_secret calls, checked under  *)
(* SpecRace                                                                *)

\* the first call of one thread and the call of the other have both
\* returned, each having added a registry the other did not
RaceDone ==
    /\ args.op = "create_update_secret"
    /\ ncalls = 1
    /\ pc = "returned"
    /\ peer.pc = "returned"
    /\ args.secret_data # <<>>
    /\ DictKeys(args.secret_data) \cap DictKeys(peer.secret_data) = {}

\* the stored secret lacks a credential the caller wrote
Lost(written) ==
    \E k \in DictKeys(written) : ~Has(AuthsOf(secret.data), k, DictGet(written, k))

\* C26: two concurrent create_update_secret calls on an existing pull-secret,
\* each adding a different registry, both return without error, and the
\* stored secret lacks the registry of one caller exactly when the other
\* caller read the secret before that caller's write and wrote after it.
C26_ConcurrentUpdatesCanBeLost ==
    RaceDone =>
        /\ err = ""
        /\ Mut("patch", "secret", NoKey) \in hist.muts
        /\ Lost(peer.secret_data) <=> peer.at_write = "cus_write"
        /\ Lost(args.secret_data) <=>
              (peer.at_read # "returned" /\ peer.at_write = "returned")

\* both calls returned and the registry the second caller wrote is not in
\* the stored secret, which holds the first caller's
C26_Witness ==
    /\ RaceDone
    /\ Lost(peer.secret_data)
    /\ ~Lost(args.secret_data)
    /\ hist.secret0 = ClusterPullSecret.data

-----------------------------------------------------------------------------
(* Termination of install_operator and uninstall_operator, checked under   *)
(* LiveSpec                                                                *)

CallRunning == (Installing \/ Uninstalling) /\ Running

CallOver == pc \in {"returned", "raised"}

\* C27: every install_operator and uninstall_operator call ends: it returns
\* or raises, whatever the reconciler does or leaves undone.
C27_InstallAndUninstallTerminate == CallRunning ~> CallOver

\* an install ended on the deadline of its first wait, after the eleven
\* polls of five minutes, the reconciler never having touched the
\* subscription
C27_Witness ==
    /\ Installing
    /\ pc = "raised"
    /\ hist.last.kind = "ipref"
    /\ hist.last.outcome = "timeout"
    /\ hist.last.probes = 11
    /\ SubscriptionStatus(InstalledSubscription) =
          [installplan |-> None, installedCSV |-> None]

-----------------------------------------------------------------------------
(* Properties of cluster_resource, checked under SpecResource              *)

\* what the cluster_resource calls made so far returned
ResourceCalls ==
    {i \in 1..Len(classes.returned) : classes.returned[i].via = "cluster_resource"}

\* C28: two cluster_resource calls with the same base class return the same
\* class object, and no base class has had more than one class synthesised
\* for it.
C28_OneClassPerBaseClass ==
    /\ \A i, j \in ResourceCalls :
          classes.returned[i].base = classes.returned[j].base =>
              classes.returned[i].class = classes.returned[j].class
    /\ \A i, j \in 1..Len(classes.made) :
          classes.made[i] = classes.made[j] => i = j

CleaningUp == args.op = "clean_up"

CollectReached == args.collector \in {"ok", "collect_raises"}

CollectFailed ==
    args.collector \in {"dict_raises", "import_raises", "collect_raises"}

\* C29: clean_up of a resource of a class made by cluster_resource calls the
\* base class's clean_up exactly once and returns, with no data collector,
\* with a data collection that succeeds and with one that raises; what a
\* failed collection raised is logged and not passed on, and the collection
\* comes before the delete.
C29_BaseCleanUpCalledExactlyOnce ==
    CleaningUp =>
        /\ pc # "raised"
        /\ err = ""
        /\ loc.cleanups = IF pc = "returned" THEN 1 ELSE 0
        /\ loc.collected => hist.trace[1] = "collect"
        /\ pc = "returned" =>
              /\ hist.trace = IF CollectReached THEN <<"collect", "clean_up">>
                              ELSE <<"clean_up">>
              /\ loc.collected <=> CollectReached
              /\ "collect_failed" \in hist.logs <=> CollectFailed
              /\ args.name \notin store.ns

\* the collect function raised after it was called: the warning was logged
\* and the namespace deleted all the same
C29_Witness ==
    /\ CleaningUp
    /\ pc = "returned"
    /\ args.collector = "collect_raises"
    /\ loc.cleanups = 1
    /\ "collect_failed" \in hist.logs
    /\ Mut("delete", "ns", Key(NameA, None)) \in hist.muts

-----------------------------------------------------------------------------
(* Logging of timeouts, checked under SpecWaits                            *)

LoggedWaits == {"ipref", "icsv", "alert", "query"}

\* something was logged at error level by the call
ErrorLogged == hist.logs # {} \/ loc.logged # <<>>

\* C30: when the wait for the install-plan reference, for installedCSV, for
\* an alert state or for a query ends on its deadline, the caller gets the
\* Timeout error, and the wait has logged an error naming what it waited for
\* and the last value it saw.
C30_TimeoutIsLoggedAndPassedOn ==
    (hist.last.kind \in LoggedWaits /\ hist.last.outcome = "timeout") =>
        /\ pc = "raised"
        /\ err = "TimeoutExpiredError"
        /\ ErrorLogged
        /\ hist.last.kind = "query" => loc.logged = <<loc.sample>>

-----------------------------------------------------------------------------
(* Properties of create_catalog_source_for_iib_install, checked under      *)
(* SpecIib                                                                 *)

IibCall == args.op = "create_catalog_source_for_iib_install"

CatalogSourceCreated ==
    /\ IibCall
    /\ Mut("create", "cs", Key(IibName, MarketNamespace)) \in hist.muts

\* host/path with the host replaced by the mirror host and the rest kept
HostRewritten(image) ==
    BrewRegistry \o Drop(image, Len(SourceIibRegistry(image)))

\* C31: the CatalogSource created for an index image host/path references
\* <mirror host>/path: the registry host is rewritten and the part of the
\* image after the first "/" is unchanged.
C31_OnlyTheRegistryHostIsRewritten ==
    CatalogSourceCreated =>
        \A c \in store.cs :
            c.name = IibName => c.image = HostRewritten(args.iib_index_image)

\* one rule's resources with every entry "imagecontentsourcepolicies"
\* replaced by the placeholder and every other entry kept
SuspendedResources(rs) ==
    [i \in 1..Len(rs) |-> IF rs[i] = IcspResource THEN "nonexists" ELSE rs[i]]

SuspendedWebhooks(webhooks) ==
    [w \in 1..Len(webhooks) |->
        [r \in 1..Len(webhooks[w]) |-> SuspendedResources(webhooks[w][r])]]

\* the computation of the patched configuration raised: nothing was written
SuspendRaised ==
    /\ pc = "raised"
    /\ err = "ValueError"
    /\ hist.muts = {}

\* C32: on a cluster that has the webhook configuration, computing the
\* suspended configuration completes without error for every content, and
\* the configuration patched in has each entry "imagecontentsourcepolicies"
\* replaced by "nonexists" and every other webhook, rule and resource entry
\* equal to the original.
C32_SuspendChangesOnlyIcspEntries ==
    (IibCall /\ hist.store0.vwc.exists) =>
        /\ ~SuspendRaised
        /\ pc = "iib_icsp" =>
              store.vwc.webhooks = SuspendedWebhooks(hist.store0.vwc.webhooks)

-----------------------------------------------------------------------------
(* Properties of a wait whose deadline is 0, checked under SpecWaits       *)

ZeroDeadlineEnded == hist.last.kind # "none" /\ hist.last.D = 0

\* C33: a polling wait with a deadline of 0 calls its probe exactly once: it
\* ends on that attempt, with the attempt's value when the value satisfies
\* the stopping condition and with Timeout otherwise, and at no time has it
\* made a second probe call.
C33_ZeroDeadlineProbesExactlyOnce ==
    /\ (loc.kind # "none" /\ loc.D = 0) => loc.probes <= 1
    /\ ZeroDeadlineEnded =>
          /\ hist.last.probes = 1
          /\ hist.last.elapsed = 0
          /\ hist.last.sat =>
                /\ hist.last.outcome = "value"
                /\ (hist.last.kind \in SamplerKinds /\ loc.kind = hist.last.kind)
                      => Returned(hist.last.kind)
          /\ ~hist.last.sat =>
                /\ hist.last.outcome = "timeout"
                /\ pc = "raised"
                /\ err = "TimeoutExpiredError"

\* a wait for the install plan with timeout 0 on a subscription that has no
\* install plan yet: one probe, then Timeout
C33_Witness ==
    /\ args.op = "wait_for_install_plan_from_subscription"
    /\ args.timeout = 0
    /\ pc = "raised"
    /\ err = "TimeoutExpiredError"
    /\ hist.last.kind = "ipref"
    /\ hist.last.D = 0
    /\ hist.last.probes = 1
    /\ ~hist.last.sat

-----------------------------------------------------------------------------
(* Properties of utils.py, checked under SpecUtils                         *)

RunCommandOver == args.op = "run_command" /\ pc \in {"returned", "raised"}

\* exit code 0 and, when verify_stderr is set, nothing on stderr
CommandSucceeded ==
    /\ loc.proc.kind = "exit"
    /\ loc.proc.returncode = 0
    /\ args.verify_stderr => loc.proc.stderr = ""

\* C34: run_command called with check left at its default reports failure
\* as a value: whatever the command did, the call returns the tuple of
\* whether the command succeeded, the captured stdout and the captured
\* stderr.
C34_RunCommandReportsFailureAsValue ==
    (RunCommandOver /\ args.check) =>
        /\ pc = "returned"
        /\ loc.ret = <<CommandSucceeded, loc.proc.stdout, loc.proc.stderr>>

SshCall == args.op = "run_ssh_commands"

\* the commands the caller gave: the list of command lists, or the one
\* command given as a flat list
GivenCommands ==
    IF args.commands.v = <<>> THEN <<>>
    ELSE IF args.commands.v[1].t = "list" THEN args.commands.v
    ELSE <<args.commands>>

FailedRuns == {i \in 1..Len(loc.ran) : loc.ran[i].rc # 0}

\* the commands run so far are the first of the given ones, in order, in
\* the one session opened; a returned call has run them all and returns
\* their outputs in order; with check_rc set a non-zero return code raises
\* CommandExecFailed at once; nothing else makes the call raise
SshRunsInOrder ==
    /\ loc.sessions <= 1
    /\ Len(loc.ran) <= Len(GivenCommands)
    /\ \A i \in 1..Len(loc.ran) :
          /\ loc.ran[i].cmd = GivenCommands[i]
          /\ loc.ran[i].session = 1
    /\ pc = "returned" =>
          /\ Len(loc.ran) = Len(GivenCommands)
          /\ loc.ret = [i \in 1..Len(loc.ran) |-> loc.ran[i].out]
          /\ ~loc.session_open
    /\ (args.check_rc /\ FailedRuns # {}) =>
          /\ pc = "raised"
          /\ err = "CommandExecFailed"
          /\ FailedRuns = {Len(loc.ran)}
          /\ ~loc.session_open
    /\ pc = "raised" => (args.check_rc /\ FailedRuns # {})

\* C35 as stated: for every commands list, run_ssh_commands runs the
\* commands in the given order in one session and returns one output per
\* command in that order; with check_rc set the first command with a
\* non-zero return code raises CommandExecFailed and no later command is
\* run, and with check_rc unset every command is run and the call returns.
C35_SshCommandsRunForEveryList ==
    SshCall => SshRunsInOrder

\* C35, amended: that holds given at least one command; given an empty list
\* the call raises IndexError, with check_rc set or unset, before a session
\* is opened and without running anything.
C35_SshCommandsRunInOrderInOneSession ==
    /\ (SshCall /\ args.commands.v # <<>>) => SshRunsInOrder
    /\ (SshCall /\ args.commands.v = <<>> /\ pc # "ssh_begin") =>
          /\ pc = "raised"
          /\ err = "IndexError"
          /\ loc.sessions = 0
          /\ loc.ran = <<>>

\* with check_rc set, the second of three commands failed: the third was
\* not run
C35_Witness ==
    /\ SshCall
    /\ args.check_rc
    /\ Len(GivenCommands) = 3
    /\ pc = "raised"
    /\ err = "CommandExecFailed"
    /\ Len(loc.ran) = 2
    /\ loc.ran[1].rc = 0
    /\ loc.ran[2].rc # 0

=============================================================================
